---- MODULE Spec2Model ----
(***************************************************************************)
(* State-machine model of SUMODelayCalculator (src/main.py): the step loop *)
(* of run_simulation and the controller phases it calls each step, over an *)
(* abstract simulation engine (the TraCI session).                         *)
(*                                                                         *)
(* Times are integers counted in ticks (TicksPerSec ticks per simulated    *)
(* second), so that sub-second step lengths such as the default 0.1 s are  *)
(* representable.  Ids (vehicle ids, lane ids, edge ids, program ids) are  *)
(* sequences of tokens: the Python string with its "_" separators removed, *)
(* so that "E1_0" is <<"E1", "0">> and startswith(p + "_") is a strict     *)
(* prefix test on token sequences.                                         *)
(***************************************************************************)
EXTENDS Integers, Sequences, FiniteSets, TLC

----------------------------------------------------------------------------
(* Bounds of the model *)

TicksPerSec == 10
\* the short step length, in ticks (0.1 s, the default of step_length)
ShortStep == 1
\* the long step length, in seconds
LongStepSec == 30
\* the horizon, in steps (total_steps)
MaxSteps == 7
\* the last step in which the engine inserts a vehicle of the route file
InsertBy == 1

----------------------------------------------------------------------------
(* Program constants, in the units of the source (seconds, metres, m/s) *)

StuckGap == 30
StuckSpeed == 1
ModerateAfter == 30
HighAfter == 60
ForceAfter == 100
DefaultLaneChangeMode == 1621
LaneChangeTimeBudget == 15
RemoveThreshold == 180
RerouteGate == 5
RerouteWait == 30

Sec(n) == n * TicksPerSec

----------------------------------------------------------------------------
(* Strings as token sequences *)

\* str(n) for the small lane and obstacle indexes of the model
DigitStr(n) == <<"0", "1", "2", "3", "4", "5", "6", "7", "8", "9">>[n + 1]

\* s.startswith(p + "_")
StartsWith(s, p) == Len(s) > Len(p) /\ SubSeq(s, 1, Len(p)) = p

\* f"{edge}_{lane}"
LaneIdOf(edge, lane) == edge \o <<DigitStr(lane)>>

\* f'obstacle_veh_{idx}'
ObstacleVehId(idx) == <<"obstacle", "veh", DigitStr(idx)>>

\* veh_id.startswith('obstacle_veh_')
IsObstacleId(id) == StartsWith(id, <<"obstacle", "veh">>)

----------------------------------------------------------------------------
(* The network and the traffic of the scenarios *)

E1 == <<"E1">>
E2 == <<"E2">>
E3 == <<"E3">>
NoEdge == <<>>
Edges == {E1, E2, E3}

\* traci.edge.getLaneNumber
LaneNumber(edge) == IF edge = E1 THEN 2 ELSE 1

LanesOf(edge) == {LaneIdOf(edge, i) : i \in 0..(LaneNumber(edge) - 1)}
AllLanes == UNION {LanesOf(e) : e \in Edges}

\* the edge and the index of a lane id
EdgeOfLane(lane_id) == SubSeq(lane_id, 1, Len(lane_id) - 1)
IndexOfLane(lane_id) == CHOOSE i \in 0..9 : DigitStr(i) = lane_id[Len(lane_id)]

V1 == <<"veh", "1">>
V2 == <<"veh", "2">>
Vehs == {V1, V2}

\* lane positions of vehicles on the edges that can hold obstacles (behind,
\* close behind and level with an obstacle at 40), and on the free edge E3
PositionsOn(edge) == IF edge = E3 THEN {0} ELSE {10, 35, 40}
\* speeds: standing, and moving at the speed limit of the stuck predicate
Speeds == {0, 1}

ORG == <<"org">>
OPT == <<"opt">>

\* a program catalog entry whose id is a lane id, and one that only shares the
\* edge prefix of E1 ("E1_alt")
E1ALT == <<"E1", "alt">>

\* Python's None / a set value, for optional fields
None == <<>>
Some(x) == <<x>>

\* traci.lane.getAngle
LaneAngle(lane_id) == IF EdgeOfLane(lane_id) = E1 THEN 90 ELSE 180

----------------------------------------------------------------------------
(* State *)

VARIABLES
    \* inputs of the run (constructor arguments, network and route files)
    mode,              \* self.mode: "bench", "opt" or "dynamic"
    step_length,       \* self.step_length, in ticks
    sim_time,          \* self.sim_time, in ticks
    obstacles,         \* self.obstacles: the descriptors, after geo conversion
    traffic,           \* route file: the edge each vehicle travels (NoEdge: absent)
    net,               \* the target traffic light: known, programs, controlled
    gui,               \* self.gui
    \* engine (TraCI session)
    connected,         \* the connection is open
    eng_veh,           \* per vehicle: status, lane, position, speed, waiting times
    eng_obs,           \* obstacle entities created in the engine, by id
    arrived_ids,       \* traci.simulation.getArrivedIDList() of the last step
    active_program,    \* the program the target traffic light runs
    cmds,              \* the commands issued to the engine in the current step
    faults,            \* transient call failures the engine may still raise
    \* controller (attributes of SUMODelayCalculator and run_simulation locals)
    pc,
    step,
    place_idx,
    attrs,             \* the lazily created attributes that exist (hasattr)
    obstacle_vehicles,
    obstacle_info,
    last_reroute_check,
    reroute_count,
    stuck_timers,      \* self._stuck_timers
    lc_force_count,    \* self._lc_force_count
    remove_count,      \* self._remove_count
    vehicle_data,
    arrived_vehicles,
    results,
    temp_dir,          \* self.temp_dir exists on disk
    saved,             \* save_results has written the output file
    exit_status,       \* the status main exits with; None while running
    \* the number of settled obstacles (entries of obstacle_info) the selector
    \* found at its first invocation; None before it
    selector_saw,
    \* the nearest-lane lookup: the lane shapes of the network, the engine
    \* call that raises during the lookup and the point looked up; and what
    \* _find_nearest_edge returned (None before the call)
    geometry,
    nearest,
    \* history of the run, for stating properties: per vehicle, the step time
    \* at which it was first in the session when data was collected, the step
    \* time at which the engine first reported it arrived, whether it was
    \* behind an obstacle at the last escalation pass, the tier that pass
    \* chose for it, and whether its timer has ever been removed
    history

inputs == <<mode, step_length, sim_time, obstacles, traffic, net, gui>>
engine == <<connected, eng_veh, eng_obs, arrived_ids, active_program, cmds,
           faults>>
reroute_state == <<last_reroute_check, reroute_count>>
assist_state == <<stuck_timers, lc_force_count>>
tracking == <<vehicle_data, arrived_vehicles>>
run_outcome == <<temp_dir, saved, exit_status>>
lookup == <<geometry, nearest>>
vars == <<inputs, lookup, engine, pc, step, place_idx, attrs, obstacle_vehicles,
          obstacle_info, reroute_state, assist_state, remove_count, tracking,
          results, run_outcome, selector_saw, history>>

\* hasattr(self, name)
HasAttr(name) == name \in attrs

\* variant: the time of the step after the current one
CurrentTime_Mut == (step + 1) * step_length

\* step * self.step_length
CurrentTime == step * step_length

\* int(self.sim_time / self.step_length)
TotalSteps == sim_time \div step_length

\* traci.vehicle.getIDList(): the vehicles and obstacle entities in the session
ActiveVehs == {v \in Vehs : eng_veh[v].st = "active"}
PresentObs == {o \in DOMAIN eng_obs : eng_obs[o].present}
IDList == ActiveVehs \cup PresentObs

----------------------------------------------------------------------------
(* Scenarios: the inputs a run is started with *)

\* an obstacle descriptor after conversion to simulation space: the nearest
\* lane the engine finds for it (edge = NoEdge: none), the lane position the
\* entity takes there, and the placement call that fails (0: none)
Descriptor(edge, lane, pos, angle, fail) ==
    [edge |-> edge, lane |-> lane, pos |-> pos, x |-> pos, y |-> lane + 1,
     angle |-> angle, fail |-> fail]

GoneVeh == [st |-> "pending", lane |-> <<>>, pos |-> 0, speed |-> 0,
            wait |-> 0, acc |-> 0]

InitController ==
    /\ connected = FALSE
    /\ eng_veh = [v \in Vehs |-> GoneVeh]
    /\ eng_obs = <<>>
    /\ arrived_ids = {}
    /\ active_program = net.initial
    /\ cmds = {}
    /\ pc = "start"
    /\ step = 0
    /\ place_idx = 0
    /\ attrs = {}
    /\ obstacle_vehicles = <<>>
    /\ obstacle_info = <<>>
    /\ last_reroute_check = 0
    /\ reroute_count = 0
    /\ stuck_timers = <<>>
    /\ lc_force_count = 0
    /\ remove_count = 0
    /\ vehicle_data = <<>>
    /\ arrived_vehicles = {}
    /\ results = None
    /\ temp_dir = TRUE
    /\ saved = FALSE
    /\ exit_status = None
    /\ selector_saw = None
    /\ nearest = None
    /\ history = [v \in Vehs |-> [seen |-> None, arrived |-> None,
                                  stuck |-> FALSE, tier |-> 0,
                                  reset |-> FALSE]]

----------------------------------------------------------------------------
(* Transient failures of engine calls *)

NoFault == [ent |-> <<>>, call |-> "none"]

\* the failure the engine raises during one phase: none, or one call on one
\* entity (while the engine has failures left to raise)
FaultChoices(ents, calls) ==
    {NoFault} \cup
    (IF faults > 0 THEN {[ent |-> e, call |-> c] : e \in ents, c \in calls}
     ELSE {})

\* the index in `calls` (the calls of one try block on entity `ent`, in
\* order) of the call that raises; Len(calls) + 1 when none does
FailIdx(fault, ent, calls) ==
    IF fault.ent = ent /\ \E i \in 1..Len(calls) : calls[i] = fault.call
    THEN CHOOSE i \in 1..Len(calls) : calls[i] = fault.call
    ELSE Len(calls) + 1

FaultsAfter(fault) == IF fault = NoFault THEN faults ELSE faults - 1

\* traci.vehicle.getIDList() called outside any try block: whether the call,
\* when the phase reaches it, raises
IdListRaises(reached) == IF faults > 0 /\ reached THEN BOOLEAN ELSE {FALSE}

\* a phase raises before it has changed anything but the lazily created
\* attributes new_attrs: the exception leaves the loop and run_simulation's
\* handler closes the connection and returns False
PhaseRaises(new_attrs) ==
    /\ faults' = faults - 1
    /\ attrs' = attrs \cup new_attrs
    /\ connected' = FALSE
    /\ pc' = "failed"
    /\ UNCHANGED <<inputs, lookup, eng_veh, eng_obs, arrived_ids, active_program, cmds,
                   step, place_idx, obstacle_vehicles, obstacle_info,
                   reroute_count, assist_state, remove_count, tracking, results,
                   history, run_outcome, selector_saw>>

\* f with key k removed / set
Without(f, ks) == [k \in (DOMAIN f) \ ks |-> f[k]]
With(f, k, val) == [j \in (DOMAIN f) \cup {k} |-> IF j = k THEN val ELSE f[j]]

----------------------------------------------------------------------------
(* run_simulation: session start and obstacle placement *)

\* traci.start(sumo_cmd): the engine starts, or cannot be started
Start ==
    /\ pc = "start"
    /\ \E ok \in BOOLEAN :
          IF ok
          THEN /\ connected' = TRUE
               /\ pc' = "add_obstacles"
          ELSE /\ connected' = FALSE
               /\ pc' = "failed"
    /\ UNCHANGED <<inputs, lookup, eng_veh, eng_obs, arrived_ids, active_program, cmds,
                   faults, step, place_idx, attrs, obstacle_vehicles,
                   obstacle_info, reroute_state, assist_state, remove_count,
                   tracking, results, history,
                   run_outcome, selector_saw>>

\* traci.edge.getIDList(): the edges in the order the engine lists them
EdgeList == <<E1, E2, E3>>

\* the call of the lookup that raises: none, traci.edge.getIDList, the
\* getLaneNumber of an edge (named by the edge), or the getShape of a lane
\* (named by the lane)
NoRaise == <<>>
EdgeIdListRaises == <<"getIDList">>

\* (px - x)**2 + (py - y)**2; the code compares the square roots, which are
\* in the same order
Dist2(p, x, y) == (p[1] - x) * (p[1] - x) + (p[2] - y) * (p[2] - y)

\* the vertices the loops over the lanes of one edge visit, from lane
\* lane_idx on: a getShape that raises ends the loop over the edge's lanes
\* (except: continue)
RECURSIVE LaneVisits(_, _, _)
LaneVisits(g, edge_id, lane_idx) ==
    IF lane_idx >= LaneNumber(edge_id) \/ g.raises = LaneIdOf(edge_id, lane_idx)
    THEN <<>>
    ELSE LET shape == g.shape[LaneIdOf(edge_id, lane_idx)]
         IN [k \in 1..Len(shape) |->
                [edge |-> edge_id, lane |-> lane_idx, p |-> shape[k]]]
            \o LaneVisits(g, edge_id, lane_idx + 1)

\* the vertices visited from the i-th edge on: an edge whose getLaneNumber
\* raises is skipped
RECURSIVE EdgeVisits(_, _)
EdgeVisits(g, i) ==
    IF i > Len(EdgeList) THEN <<>>
    ELSE (IF g.raises = EdgeList[i] THEN <<>> ELSE LaneVisits(g, EdgeList[i], 0))
         \o EdgeVisits(g, i + 1)

\* if dist < min_dist, with min_dist = float('inf') at the start
Closer(dist, min_dist) == min_dist = None \/ dist < min_dist[1]

\* the loop over the visited vertices from the i-th on, with the running
\* minimum best = (min_dist, nearest_edge, nearest_lane)
RECURSIVE Scan(_, _, _, _, _)
Scan(visits, i, x, y, best) ==
    IF i > Len(visits) THEN best
    ELSE LET dist == Dist2(visits[i].p, x, y)
         IN Scan(visits, i + 1, x, y,
                 IF Closer(dist, best.min_dist)
                 THEN [min_dist |-> Some(dist), edge |-> visits[i].edge,
                       lane |-> visits[i].lane]
                 ELSE best)

\* _find_nearest_edge(x, y): (nearest_edge, nearest_lane), or (None, 0) when
\* traci.edge.getIDList raises
FindNearestEdge(g) ==
    IF g.raises = EdgeIdListRaises
    THEN [edge |-> NoEdge, lane |-> 0]
    ELSE LET best == Scan(EdgeVisits(g, 1), 1, g.x, g.y,
                          [min_dist |-> None, edge |-> NoEdge, lane |-> 0])
         IN [edge |-> best.edge, lane |-> best.lane]

\* the call edge_id, lane_idx = self._find_nearest_edge(x, y)
FindNearestEdgeCall ==
    /\ nearest = None
    /\ nearest' = Some(FindNearestEdge(geometry))
    /\ UNCHANGED <<inputs, geometry, engine, pc, step, place_idx, attrs,
                   obstacle_vehicles, obstacle_info, reroute_state,
                   assist_state, remove_count, tracking, results, run_outcome,
                   selector_saw, history>>

\* the engine calls of one placement, in order
PlaceCalls == <<"convertGeo", "getAngle", "route.add", "vehicle.add",
                "moveToXY", "setSpeedMode", "setSpeed", "setColor", "setStop">>

\* the position in PlaceCalls of the call of descriptor d that raises
\* (Len(PlaceCalls) + 1: none); getAngle is called only without an angle
PlaceFailIdx(d) ==
    IF \E i \in 1..Len(PlaceCalls) :
          PlaceCalls[i] = d.fail /\ (d.fail = "getAngle" => d.angle = None)
    THEN CHOOSE i \in 1..Len(PlaceCalls) : PlaceCalls[i] = d.fail
    ELSE Len(PlaceCalls) + 1

\* the angle the obstacle is placed with
PlacedAngle(d) ==
    IF d.angle = None THEN LaneAngle(LaneIdOf(d.edge, d.lane)) ELSE d.angle[1]

\* variant: the id is derived from the number of records registered so far
ObstacleRecord_Mut(idx, d) ==
    [id |-> ObstacleVehId(Len(obstacle_vehicles)), x |-> d.x, y |-> d.y,
     angle |-> PlacedAngle(d), edge |-> d.edge, lane |-> d.lane]

\* the record appended to self.obstacle_vehicles
ObstacleRecord(idx, d) ==
    [id |-> ObstacleVehId(idx), x |-> d.x, y |-> d.y, angle |-> PlacedAngle(d),
     edge |-> d.edge, lane |-> d.lane]

\* the entity traci.vehicle.add creates; it is at the descriptor's position
\* once moveToXY has moved it there
ObstacleEntity(d, moved) ==
    [present |-> TRUE, lane |-> LaneIdOf(d.edge, d.lane),
     pos |-> IF moved THEN d.pos ELSE 0]

\* add_obstacles_via_traci: one iteration of its loop (descriptor place_idx,
\* 0-based), or the end of the loop
AddObstacles ==
    /\ pc = "add_obstacles"
    /\ IF obstacles = <<>>
       THEN \* if not self.obstacles: return
            /\ pc' = "simulationStep"
            /\ UNCHANGED <<place_idx, attrs, obstacle_vehicles, eng_obs>>
       ELSE IF place_idx >= Len(obstacles)
       THEN /\ pc' = "simulationStep"
            /\ attrs' = attrs \cup {"obstacle_vehicles"}
            /\ UNCHANGED <<place_idx, obstacle_vehicles, eng_obs>>
       ELSE LET d == obstacles[place_idx + 1]
                k == PlaceFailIdx(d)
                found == d.edge # NoEdge
                created == found /\ k > 4
                registered == found /\ k > Len(PlaceCalls)
            IN /\ attrs' = attrs \cup {"obstacle_vehicles"}
               /\ place_idx' = place_idx + 1
               /\ eng_obs' = IF created
                             THEN With(eng_obs, ObstacleVehId(place_idx),
                                       ObstacleEntity(d, k > 5))
                             ELSE eng_obs
               /\ obstacle_vehicles' =
                     IF registered
                     THEN Append(obstacle_vehicles, ObstacleRecord(place_idx, d))
                     ELSE obstacle_vehicles
               /\ UNCHANGED pc
    /\ UNCHANGED <<inputs, lookup, connected, eng_veh, arrived_ids, active_program,
                   cmds, faults, step, obstacle_info, reroute_state,
                   assist_state, remove_count, tracking, results, history,
                   run_outcome, selector_saw>>

----------------------------------------------------------------------------
(* The engine: traci.simulationStep() *)

ArrivedVeh == [st |-> "arrived", lane |-> <<>>, pos |-> 0, speed |-> 0,
               wait |-> 0, acc |-> 0]
RemovedVeh == [st |-> "removed", lane |-> <<>>, pos |-> 0, speed |-> 0,
               wait |-> 0, acc |-> 0]

\* the states vehicle v can be in after one engine step: a vehicle of the
\* route file is inserted on its edge at some time, moves forward (or not at
\* all, at speed 0), may change lane, and arrives at some time; waiting time
\* grows while it stands and is reset when it moves, accumulated waiting
\* time only grows
NextVeh(v) ==
    LET s == eng_veh[v] IN
    IF s.st = "pending"
    THEN {s} \cup
         (IF traffic[v] = NoEdge \/ step > InsertBy THEN {}
          ELSE {[st |-> "active", lane |-> l, pos |-> p, speed |-> sp,
                 wait |-> 0, acc |-> 0] :
                   l \in LanesOf(traffic[v]), p \in PositionsOn(traffic[v]),
                   sp \in Speeds})
    ELSE IF s.st = "active"
    THEN {ArrivedVeh} \cup
         UNION {{[st |-> "active", lane |-> l, pos |-> p, speed |-> sp,
                  wait |-> IF sp = 0 THEN s.wait + step_length ELSE 0,
                  acc |-> IF sp = 0 THEN s.acc + step_length ELSE s.acc] :
                    l \in LanesOf(EdgeOfLane(s.lane)),
                    p \in {q \in PositionsOn(EdgeOfLane(s.lane)) :
                             q >= s.pos /\ (sp = 0 => q = s.pos)}} :
                sp \in Speeds}
    ELSE {s}

\* an obstacle entity stays where it is, unless the session removes it.
\* while step < total_steps: traci.simulationStep(); an error raised by the
\* call ends the run (except Exception in run_simulation: traci.close())
SimulationStep ==
    /\ pc = "simulationStep"
    /\ step < TotalSteps
    /\ \E ok \in BOOLEAN :
          IF ok
          THEN /\ \E n1 \in NextVeh(V1), n2 \in NextVeh(V2) :
                     /\ eng_veh' = (V1 :> n1) @@ (V2 :> n2)
                     /\ arrived_ids' =
                           {v \in Vehs : eng_veh[v].st = "active"
                                          /\ eng_veh'[v].st = "arrived"}
               /\ \E f \in [DOMAIN eng_obs -> BOOLEAN] :
                     /\ \A o \in DOMAIN eng_obs :
                           f[o] = FALSE => net.volatile /\ eng_obs[o].present
                     /\ eng_obs' = [o \in DOMAIN eng_obs |->
                                      IF f[o] THEN eng_obs[o]
                                      ELSE [eng_obs[o] EXCEPT !.present = FALSE]]
               /\ cmds' = {}
               /\ pc' = "update_obstacle_positions"
               /\ UNCHANGED connected
          ELSE /\ connected' = FALSE
               /\ pc' = "failed"
               /\ UNCHANGED <<eng_veh, eng_obs, arrived_ids, cmds>>
    /\ UNCHANGED <<inputs, lookup, active_program, faults, step, place_idx, attrs,
                   obstacle_vehicles, obstacle_info, reroute_state,
                   assist_state, remove_count, tracking, results, history,
                   run_outcome, selector_saw>>

----------------------------------------------------------------------------
(* Commands issued to the engine *)

\* one command: the call, the entity it addresses, its string arguments and
\* its integer arguments
Cmd(op, ent, strs, ints) == [op |-> op, ent |-> ent, strs |-> strs, ints |-> ints]

Range(seq) == {seq[i] : i \in 1..Len(seq)}

----------------------------------------------------------------------------
(* update_obstacle_positions *)

\* the engine calls of the try block of one obstacle record, in order
ReassertCalls == <<"getIDList", "moveToXY", "setSpeed">>

\* variant: the override names the lane next to the registered one
MoveToXYCmd_Mut(obs) ==
    Cmd("moveToXY", obs.id, obs.edge, <<obs.lane + 1, obs.x, obs.y, obs.angle, 2>>)

\* traci.vehicle.moveToXY(obs id, edge, lane, x, y, angle, keepRoute=2)
MoveToXYCmd(obs) ==
    Cmd("moveToXY", obs.id, obs.edge, <<obs.lane, obs.x, obs.y, obs.angle, 2>>)

\* traci.vehicle.setSpeed(obs id, 0)
SetSpeedZeroCmd(obs) == Cmd("setSpeed", obs.id, <<>>, <<0>>)

\* variant: the pass drops the records whose entity is gone
RegistryAfterReassert_Mut ==
    LET Present(obs) == obs.id \in IDList
    IN SelectSeq(obstacle_vehicles, Present)

\* for obs in self.obstacle_vehicles: the loop reads the records and appends
\* them to obstacle_info; it assigns no record and not the list
RegistryAfterReassert == obstacle_vehicles

UpdateObstaclePositions ==
    /\ pc = "update_obstacle_positions"
    /\ IF ~HasAttr("obstacle_vehicles")
       THEN UNCHANGED <<obstacle_info, attrs, cmds, faults>>
       ELSE \E fault \in FaultChoices({obs.id : obs \in Range(obstacle_vehicles)},
                                      Range(ReassertCalls)) :
               LET k(obs) == FailIdx(fault, obs.id, ReassertCalls)
                   \* if obs['id'] in traci.vehicle.getIDList()
                   present(obs) == k(obs) > 1 /\ obs.id \in IDList
                   moved(obs) == present(obs) /\ k(obs) > 2
                   settled(obs) == present(obs) /\ k(obs) > 3
               IN /\ obstacle_info' = SelectSeq(obstacle_vehicles, settled)
                  /\ cmds' = cmds
                       \cup {MoveToXYCmd(obs) : obs \in
                               {o \in Range(obstacle_vehicles) : moved(o)}}
                       \cup {SetSpeedZeroCmd(obs) : obs \in
                               {o \in Range(obstacle_vehicles) : settled(o)}}
                  /\ attrs' = attrs \cup {"obstacle_info"}
                  /\ faults' = FaultsAfter(fault)
    /\ obstacle_vehicles' = RegistryAfterReassert
    /\ pc' = "update_tls_program"
    /\ UNCHANGED <<inputs, lookup, connected, eng_veh, eng_obs, arrived_ids,
                   active_program, step, place_idx,
                   reroute_state, assist_state, remove_count, tracking, results, history,
                   run_outcome, selector_saw>>

----------------------------------------------------------------------------
(* update_tls_program *)

\* target_tls_id
TLS == <<"cluster">>

\* the engine calls of update_tls_program in dynamic mode, in order
TlsCalls == <<"getAllProgramLogics", "getControlledLanes", "setProgram">>

\* the first element of a sequence of hits, as an option (the loops that
\* break at the first hit)
FirstOf(hits) == IF hits = <<>> THEN None ELSE Some(hits[1])

\* variant: the applied flag is never seen
AlreadyApplied_Mut == FALSE

\* if hasattr(self, '_tls_program_applied'): return
AlreadyApplied == HasAttr("_tls_program_applied")

\* for lane_id in obstacle_lane_ids: if lane_id in controlled_lanes:
\*     matched_lane = lane_id; break
MatchedLane(lane_ids, controlled_lanes) ==
    LET Controlled(l) == l \in controlled_lanes
    IN FirstOf(SelectSeq(lane_ids, Controlled))

\* the program chosen once some obstacle lane is controlled (matched_lane):
\* its own program, else the first program with the first obstacle's edge as
\* prefix, else "opt"
ProgramForMatched(matched_lane, obs_edge, available_programs) ==
    IF matched_lane \in Range(available_programs)
    THEN matched_lane
    ELSE LET OfEdge(prog_id) == StartsWith(prog_id, obs_edge)
             edge_program == FirstOf(SelectSeq(available_programs, OfEdge))
         IN IF edge_program # None THEN edge_program[1] ELSE OPT

\* the program dynamic mode asks for, given the settled obstacles
DynamicProgram(info, available_programs, controlled_lanes) ==
    LET obstacle_lane_ids ==
            [i \in 1..Len(info) |-> LaneIdOf(info[i].edge, info[i].lane)]
        obstacle_edges == [i \in 1..Len(info) |-> info[i].edge]
        matched_lane == MatchedLane(obstacle_lane_ids, controlled_lanes)
    IN IF matched_lane # None
       THEN ProgramForMatched(matched_lane[1], obstacle_edges[1],
                              available_programs)
       ELSE ORG

\* variant: dynamic mode without settled obstacles asks for "opt"
RequestedProgram_NoInfoOpt(fault) ==
    LET k == FailIdx(fault, TLS, TlsCalls) IN
    IF mode = "bench" THEN Some(ORG)
    ELSE IF mode = "opt" THEN Some(OPT)
    ELSE IF ~HasAttr("obstacle_info") \/ obstacle_info = <<>> THEN Some(OPT)
    ELSE IF ~net.known \/ k = 1 THEN None
    ELSE IF k = 2 THEN None
    ELSE Some(DynamicProgram(obstacle_info, net.programs, net.controlled))

\* variant: the mode is not looked at
RequestedProgram_Mut(fault) ==
    LET k == FailIdx(fault, TLS, TlsCalls) IN
    IF ~HasAttr("obstacle_info") \/ obstacle_info = <<>> THEN Some(ORG)
    ELSE IF ~net.known \/ k = 1 THEN None
    ELSE IF k = 2 THEN None
    ELSE Some(DynamicProgram(obstacle_info, net.programs, net.controlled))

\* the program passed to traci.trafficlight.setProgram by the first
\* invocation, as an option: None when a query fails before any request
RequestedProgram(fault) ==
    LET k == FailIdx(fault, TLS, TlsCalls) IN
    IF mode = "bench" THEN Some(ORG)
    ELSE IF mode = "opt" THEN Some(OPT)
    ELSE IF ~HasAttr("obstacle_info") \/ obstacle_info = <<>> THEN Some(ORG)
    ELSE IF ~net.known \/ k = 1 THEN None
    ELSE IF k = 2 THEN None
    ELSE Some(DynamicProgram(obstacle_info, net.programs, net.controlled))

\* variant: every request takes effect
SetProgramAccepted_Mut(p, fault) == TRUE

\* the engine accepts setProgram(TLS, p): the traffic light and the program
\* exist and the call does not fail
SetProgramAccepted(p, fault) ==
    /\ net.known
    /\ p \in Range(net.programs)
    /\ FailIdx(fault, TLS, TlsCalls) # 3

\* the engine calls the first invocation can reach: the two queries are
\* made only in dynamic mode with settled obstacles
ReachedTlsCalls ==
    IF mode \in {"bench", "opt"} \/ ~HasAttr("obstacle_info") \/ obstacle_info = <<>>
    THEN {"setProgram"}
    ELSE Range(TlsCalls)

UpdateTlsProgram ==
    /\ pc = "update_tls_program"
    /\ IF AlreadyApplied
       THEN UNCHANGED <<attrs, active_program, cmds, faults>>
       ELSE \E fault \in FaultChoices({TLS}, ReachedTlsCalls) :
               LET req == RequestedProgram(fault) IN
               /\ attrs' = attrs \cup {"_tls_program_applied"}
               /\ faults' = FaultsAfter(fault)
               /\ cmds' = IF req = None THEN cmds
                          ELSE cmds \cup {Cmd("setProgram", TLS, req[1], <<>>)}
               /\ active_program' =
                     IF req # None /\ SetProgramAccepted(req[1], fault)
                     THEN req[1] ELSE active_program
    /\ selector_saw' = IF AlreadyApplied THEN selector_saw
                       ELSE Some(Len(obstacle_info))
    /\ pc' = "trigger_rerouting"
    /\ UNCHANGED <<inputs, lookup, connected, eng_veh, eng_obs, arrived_ids, step,
                   place_idx, obstacle_vehicles, obstacle_info, reroute_state,
                   assist_state, remove_count, tracking, results, history,
                   run_outcome>>

----------------------------------------------------------------------------
(* trigger_rerouting *)

\* the argument run_simulation passes: self.trigger_rerouting(step)
RerouteClock == step

\* the engine calls of the try block of one vehicle, in order
RerouteCalls == <<"getAccumulatedWaitingTime", "getSpeed", "rerouteTraveltime">>

\* if step - self.last_reroute_check < 5: return
RerouteGateClosed(clock) == clock - last_reroute_check < RerouteGate

\* variant: a wait of exactly 30 s is enough
RerouteWanted_Mut(v) ==
    eng_veh[v].acc >= Sec(RerouteWait) /\ eng_veh[v].speed < StuckSpeed

\* if waiting_time > 30 and speed < 1.0
RerouteWanted(v) ==
    eng_veh[v].acc > Sec(RerouteWait) /\ eng_veh[v].speed < StuckSpeed

\* variant: a cooldown, no vehicle is rerouted once a reroute was counted
Rerouted_Mut(fault) ==
    {v \in {w \in IDList : ~IsObstacleId(w)} :
        /\ reroute_count = 0
        /\ RerouteWanted(v) /\ FailIdx(fault, v, RerouteCalls) > 3}

\* the vehicles a run reroutes: the reroute command was reached and succeeded
Rerouted(fault) ==
    {v \in {w \in IDList : ~IsObstacleId(w)} :
        RerouteWanted(v) /\ FailIdx(fault, v, RerouteCalls) > 3}

\* the rerouting check returns normally
TriggerReroutingReturns ==
    /\ pc = "trigger_rerouting"
    /\ attrs' = attrs \cup {"last_reroute_check"}
    /\ IF RerouteGateClosed(RerouteClock)
       THEN UNCHANGED <<reroute_state, cmds, faults>>
       ELSE \E fault \in FaultChoices(ActiveVehs, Range(RerouteCalls)) :
               /\ last_reroute_check' = RerouteClock
               /\ cmds' = cmds \cup {Cmd("rerouteTraveltime", v, <<>>, <<>>) :
                                       v \in Rerouted(fault)}
               /\ reroute_count' = reroute_count + Cardinality(Rerouted(fault))
               /\ faults' = FaultsAfter(fault)
    /\ pc' = "assist_stuck_vehicles"
    /\ UNCHANGED <<inputs, lookup, connected, eng_veh, eng_obs, arrived_ids,
                   active_program, step, place_idx, obstacle_vehicles,
                   obstacle_info, assist_state, remove_count, tracking, results, history,
                   run_outcome, selector_saw>>

TriggerRerouting ==
    /\ pc = "trigger_rerouting"
    /\ \E raised \in IdListRaises(~RerouteGateClosed(RerouteClock)) :
          IF raised
          THEN PhaseRaises({"last_reroute_check"})
                  /\ last_reroute_check' = RerouteClock
          ELSE TriggerReroutingReturns

----------------------------------------------------------------------------
(* assist_stuck_vehicles *)

ParamNames == <<"lcPushy", "lcAssertive", "lcImpatience">>
ModerateParams == <<"0.5", "3.0", "0.5">>
HighParams == <<"1.0", "5.0", "1.0">>
BaseParams == <<"0", "1", "0">>

\* the engine calls on one vehicle, in order: the queries of the try block,
\* then the calls of the forced lane change, of a parameter setting, and of
\* the reset
QueryCalls == <<"getLaneID", "getLanePosition", "getSpeed">>
ForceCalls == <<"setLaneChangeMode", "getLaneIndex", "getRoadID",
                "getLaneNumber", "changeLane">>
ParamCalls == <<"setParameter.lcPushy", "setParameter.lcAssertive",
                "setParameter.lcImpatience">>
ResetCalls == <<"setLaneChangeMode">> \o ParamCalls
AssistCalls == Range(QueryCalls) \cup Range(ForceCalls) \cup Range(ParamCalls)

\* variant: the gap may be zero or negative
StuckPredicate_Mut(distance, speed) ==
    distance < StuckGap /\ speed < StuckSpeed

\* if 0 < distance < 30 and speed < 1.0
StuckPredicate(distance, speed) ==
    0 < distance /\ distance < StuckGap /\ speed < StuckSpeed

\* variant: the bands include their lower boundary
Tier_Mut(wait) ==
    IF wait >= Sec(ForceAfter) THEN 3
    ELSE IF wait >= Sec(HighAfter) THEN 2
    ELSE IF wait >= Sec(ModerateAfter) THEN 1
    ELSE 0

\* the escalation tier for an elapsed stuck time: 3 forced lane change
\* (wait > 100), 2 high (wait > 60), 1 moderate (wait > 30), 0 none
Tier(wait) ==
    IF wait > Sec(ForceAfter) THEN 3
    ELSE IF wait > Sec(HighAfter) THEN 2
    ELSE IF wait > Sec(ModerateAfter) THEN 1
    ELSE 0

\* obstacles that enter the lookup obstacle_lanes: present in the id list and
\* their lane position could be read
Indexed(obs, fault) ==
    /\ obs.id \in IDList
    /\ ~(fault.ent = obs.id /\ fault.call = "getLanePosition")

\* obstacle_lanes[lane_id]: the indexed obstacles registered on the lane, in
\* registration order; obstacle_lanes is empty when this is empty for all lanes
ObstaclesOnLane(lane_id, fault) ==
    SelectSeq(obstacle_vehicles,
              LAMBDA obs : Indexed(obs, fault)
                           /\ LaneIdOf(obs.edge, obs.lane) = lane_id)

NoObstacleLanes(fault) ==
    \A i \in 1..Len(obstacle_vehicles) : ~Indexed(obstacle_vehicles[i], fault)

\* the entries of obstacle_lanes[lane_id] of v's lane that satisfy the
\* predicate for v
MatchingObstacles(v, fault) ==
    {i \in 1..Len(ObstaclesOnLane(eng_veh[v].lane, fault)) :
        StuckPredicate(
            eng_obs[ObstaclesOnLane(eng_veh[v].lane, fault)[i].id].pos
                - eng_veh[v].pos,
            eng_veh[v].speed)}

\* variant: no break, the loop body runs for every matching obstacle
ActsOn_Mut(v, fault) == MatchingObstacles(v, fault)

\* the entries the loop body runs for: the first matching one, then
\* "break  # only match first obstacle on this lane"
ActsOn(v, fault) ==
    {i \in MatchingObstacles(v, fault) :
        \A j \in MatchingObstacles(v, fault) : i <= j}

\* currently_stuck: the queries on v succeed and some obstacle of the lookup
\* on its lane satisfies the predicate
ClassifiedStuck(v, fault) ==
    /\ FailIdx(fault, v, QueryCalls) > 3
    /\ \E i \in 1..Len(ObstaclesOnLane(eng_veh[v].lane, fault)) :
          StuckPredicate(
              eng_obs[ObstaclesOnLane(eng_veh[v].lane, fault)[i].id].pos
                  - eng_veh[v].pos,
              eng_veh[v].speed)

\* variant: a new timer starts at time 0 instead of the current time
TimerOf_Mut(v, current_time) ==
    IF v \in DOMAIN stuck_timers THEN stuck_timers[v] ELSE 0

\* self._stuck_timers[veh_id] after "if veh_id not in self._stuck_timers"
TimerOf(v, current_time) ==
    IF v \in DOMAIN stuck_timers THEN stuck_timers[v] ELSE current_time

\* variant: always the lane to the left
TargetLane_Mut(cur_lane, n_lanes) == cur_lane + 1

\* target = cur_lane + 1 if cur_lane + 1 < n_lanes else cur_lane - 1
TargetLane(cur_lane, n_lanes) ==
    IF cur_lane + 1 < n_lanes THEN cur_lane + 1 ELSE cur_lane - 1

\* if 0 <= target < n_lanes
TargetExists(target, n_lanes) == 0 <= target /\ target < n_lanes

SetParamCmds(v, values, upto) ==
    {Cmd("setParameter", v, <<ParamNames[i], values[i]>>, <<>>) :
        i \in {j \in 1..3 : j <= upto}}

\* the commands the forced lane change of v issues, up to a failing call
ForceCmds(v, fault) ==
    LET j == FailIdx(fault, v, ForceCalls)
        cur_lane == IndexOfLane(eng_veh[v].lane)
        n_lanes == LaneNumber(EdgeOfLane(eng_veh[v].lane))
        target == TargetLane(cur_lane, n_lanes)
    IN (IF j > 1 THEN {Cmd("setLaneChangeMode", v, <<>>, <<0>>)} ELSE {})
       \cup
       (IF j > 5 /\ TargetExists(target, n_lanes)
        THEN {Cmd("changeLane", v, <<>>, <<target, LaneChangeTimeBudget>>)}
        ELSE {})

\* self._lc_force_count += 1 is reached: no call before it raised
ForceCounted(v, fault) ==
    LET j == FailIdx(fault, v, ForceCalls)
        cur_lane == IndexOfLane(eng_veh[v].lane)
        n_lanes == LaneNumber(EdgeOfLane(eng_veh[v].lane))
    IN  j > 4 /\ (TargetExists(TargetLane(cur_lane, n_lanes), n_lanes) => j > 5)

\* the commands issued to a vehicle classified as stuck
EscalateCmds(v, fault, current_time) ==
    LET tier == Tier(current_time - TimerOf(v, current_time))
        upto == FailIdx(fault, v, ParamCalls) - 1
    IN IF tier = 3 THEN ForceCmds(v, fault)
       ELSE IF tier = 2 THEN SetParamCmds(v, HighParams, upto)
       ELSE IF tier = 1 THEN SetParamCmds(v, ModerateParams, upto)
       ELSE {}

\* the commands issued to a vehicle whose timer is reset
ResetCmds(v, fault) ==
    LET j == FailIdx(fault, v, ResetCalls) IN
    IF v \notin IDList THEN {}
    ELSE (IF j > 1
          THEN {Cmd("setLaneChangeMode", v, <<>>, <<DefaultLaneChangeMode>>)}
          ELSE {})
         \cup SetParamCmds(v, BaseParams, j - 2)

\* v stands behind a registered obstacle that is in the session: on its
\* lane, within the gap, below the speed limit of the predicate
BehindObstacle(v) ==
    /\ v \in ActiveVehs
    /\ \E i \in 1..Len(obstacle_vehicles) :
          LET obs == obstacle_vehicles[i] IN
          /\ obs.id \in PresentObs
          /\ LaneIdOf(obs.edge, obs.lane) = eng_veh[v].lane
          /\ StuckPredicate(eng_obs[obs.id].pos - eng_veh[v].pos,
                            eng_veh[v].speed)

\* the history after an escalation pass that leaves the timers `timers` and
\* chose the tiers `tiers`
AssistHistory(timers, tiers) ==
    [v \in Vehs |->
        [history[v] EXCEPT
           !.stuck = BehindObstacle(v),
           !.tier = tiers[v],
           !.reset = history[v].reset
                     \/ (v \in DOMAIN stuck_timers /\ v \notin DOMAIN timers)]]

NoTiers == [v \in Vehs |-> 0]

\* the early returns of assist_stuck_vehicles
NoObstaclesRegistered ==
    ~HasAttr("obstacle_vehicles") \/ obstacle_vehicles = <<>>

\* the escalation pass returns normally
AssistStuckVehiclesReturns ==
    /\ pc = "assist_stuck_vehicles"
    /\ IF NoObstaclesRegistered
       THEN /\ UNCHANGED <<attrs, assist_state, cmds, faults>>
            /\ history' = AssistHistory(stuck_timers, NoTiers)
       ELSE \E fault \in FaultChoices(IDList, AssistCalls) :
               LET current_time == CurrentTime
                   vehicles == {v \in IDList : ~IsObstacleId(v)}
                   currently_stuck ==
                       {v \in vehicles : ClassifiedStuck(v, fault)}
                   resets == (DOMAIN stuck_timers) \ currently_stuck
               IN /\ attrs' = attrs \cup {"_stuck_timers"}
                  /\ faults' = FaultsAfter(fault)
                  /\ IF NoObstacleLanes(fault)
                     THEN /\ UNCHANGED <<assist_state, cmds>>
                          /\ history' = AssistHistory(stuck_timers, NoTiers)
                     ELSE /\ history' = AssistHistory(
                                [v \in currently_stuck |-> 0],
                                [v \in Vehs |->
                                    IF v \in currently_stuck
                                    THEN Tier(current_time
                                              - TimerOf(v, current_time))
                                    ELSE 0])
                          /\ stuck_timers' =
                                [v \in currently_stuck |->
                                    TimerOf(v, current_time)]
                          /\ lc_force_count' = lc_force_count + Cardinality(
                                UNION {{<<v, i>> : i \in ActsOn(v, fault)} :
                                  v \in {w \in currently_stuck :
                                    /\ Tier(current_time
                                            - TimerOf(w, current_time)) = 3
                                    /\ ForceCounted(w, fault)}})
                          /\ cmds' = cmds
                                \cup UNION {EscalateCmds(v, fault, current_time) :
                                              v \in currently_stuck}
                                \cup UNION {ResetCmds(v, fault) : v \in resets}
    /\ pc' = "remove_stuck_vehicles"
    /\ UNCHANGED <<inputs, lookup, connected, eng_veh, eng_obs, arrived_ids,
                   active_program, step, place_idx, obstacle_vehicles,
                   obstacle_info, reroute_state, remove_count, tracking, results,
                   run_outcome, selector_saw>>

AssistStuckVehicles ==
    /\ pc = "assist_stuck_vehicles"
    /\ \E raised \in IdListRaises(~NoObstaclesRegistered) :
          IF raised
          THEN PhaseRaises({"_stuck_timers"})
                  /\ last_reroute_check' = last_reroute_check
          ELSE AssistStuckVehiclesReturns

----------------------------------------------------------------------------
(* remove_stuck_vehicles *)

\* the engine calls of the try block of one vehicle, in order
RemoveCalls == <<"getWaitingTime", "remove">>

\* variant: the sweep skips no entity
ReaperSkips_Mut(veh_id) == FALSE

\* if veh_id.startswith('obstacle_veh_'): continue
ReaperSkips(veh_id) == IsObstacleId(veh_id)

\* traci.vehicle.getWaitingTime: an obstacle entity stands since the start
WaitingTime(veh_id) ==
    IF veh_id \in Vehs THEN eng_veh[veh_id].wait ELSE CurrentTime + step_length

\* variant: strict comparison with the threshold
OverThreshold_Mut(waiting_time, threshold) == waiting_time > Sec(threshold)

\* if waiting_time >= threshold
OverThreshold(waiting_time, threshold) == waiting_time >= Sec(threshold)

\* the entities a sweep removes: the removal command was reached and succeeded
Reaped(fault) ==
    {v \in IDList :
        /\ ~ReaperSkips(v)
        /\ OverThreshold(WaitingTime(v), RemoveThreshold)
        /\ FailIdx(fault, v, RemoveCalls) > 2}

\* the sweep returns normally
RemoveStuckVehiclesReturns ==
    /\ pc = "remove_stuck_vehicles"
    /\ \E fault \in FaultChoices(ActiveVehs, Range(RemoveCalls)) :
          /\ attrs' = attrs \cup {"_remove_count"}
          /\ cmds' = cmds \cup {Cmd("remove", v, <<>>, <<2>>) : v \in Reaped(fault)}
          /\ remove_count' = remove_count + Cardinality(Reaped(fault))
          /\ eng_veh' = [v \in Vehs |->
                           IF v \in Reaped(fault) THEN RemovedVeh ELSE eng_veh[v]]
          /\ eng_obs' = [o \in DOMAIN eng_obs |->
                           IF o \in Reaped(fault)
                           THEN [eng_obs[o] EXCEPT !.present = FALSE]
                           ELSE eng_obs[o]]
          /\ faults' = FaultsAfter(fault)
    /\ pc' = "collect_vehicle_data"
    /\ UNCHANGED <<inputs, lookup, connected, arrived_ids, active_program, step,
                   place_idx, obstacle_vehicles, obstacle_info, reroute_state,
                   assist_state, tracking, results, history,
                   run_outcome, selector_saw>>

RemoveStuckVehicles ==
    /\ pc = "remove_stuck_vehicles"
    /\ \E raised \in IdListRaises(TRUE) :
          IF raised
          THEN PhaseRaises({"_remove_count"})
                  /\ last_reroute_check' = last_reroute_check
          ELSE RemoveStuckVehiclesReturns

----------------------------------------------------------------------------
(* collect_vehicle_data *)

\* variant: the new record carries the step time as arrival time
NewRecord_Mut(t) ==
    [depart_time |-> t, total_time_loss |-> 0, total_waiting_time |-> 0,
     arrival_time |-> Some(t)]

\* self.vehicle_data[veh_id] = {...} for a vehicle seen for the first time
NewRecord(t) ==
    [depart_time |-> t, total_time_loss |-> 0, total_waiting_time |-> 0,
     arrival_time |-> None]

\* variant: the record is created anew in every step
Refreshed_Mut(v, t, fault) ==
    LET rec == NewRecord(t)
    IN IF fault.ent = v
       THEN rec
       ELSE [rec EXCEPT !.total_waiting_time = eng_veh[v].acc]

\* the record of an active vehicle after the first loop: created if missing,
\* waiting time refreshed unless the query fails
Refreshed(v, t, fault) ==
    LET rec == IF v \in DOMAIN vehicle_data THEN vehicle_data[v] ELSE NewRecord(t)
    IN IF fault.ent = v
       THEN rec
       ELSE [rec EXCEPT !.total_waiting_time = eng_veh[v].acc]

\* variant: the arrival of a vehicle that has waited is not recorded
NewlyArrived_Mut(v, data) ==
    v \in DOMAIN data /\ data[v].arrival_time = None
                      /\ data[v].total_waiting_time = 0

\* if veh_id in self.vehicle_data and ...['arrival_time'] is None
NewlyArrived(v, data) ==
    v \in DOMAIN data /\ data[v].arrival_time = None

\* the aggregator update returns normally
CollectVehicleDataReturns ==
    /\ pc = "collect_vehicle_data"
    /\ \E fault \in FaultChoices(ActiveVehs, {"getAccumulatedWaitingTime"}) :
          LET t == CurrentTime
              seen == {v \in IDList : ~IsObstacleId(v)}
              data == [v \in (DOMAIN vehicle_data) \cup seen |->
                         IF v \in seen THEN Refreshed(v, t, fault)
                         ELSE vehicle_data[v]]
              newly == {v \in arrived_ids : NewlyArrived(v, data)}
          IN /\ vehicle_data' = [v \in DOMAIN data |->
                                   IF v \in newly
                                   THEN [data[v] EXCEPT !.arrival_time = Some(t)]
                                   ELSE data[v]]
             /\ arrived_vehicles' = arrived_vehicles \cup newly
             /\ history' = [v \in Vehs |->
                   [history[v] EXCEPT
                      !.seen = IF history[v].seen = None /\ v \in seen
                               THEN Some(t) ELSE history[v].seen,
                      !.arrived = IF history[v].arrived = None /\ v \in arrived_ids
                                  THEN Some(t) ELSE history[v].arrived]]
             /\ faults' = FaultsAfter(fault)
    \* step += 1
    /\ step' = step + 1
    /\ pc' = "simulationStep"
    /\ UNCHANGED <<inputs, lookup, connected, eng_veh, eng_obs, arrived_ids,
                   active_program, cmds, place_idx, attrs, obstacle_vehicles,
                   obstacle_info, reroute_state, assist_state, remove_count,
                   results,
                   run_outcome, selector_saw>>

CollectVehicleData ==
    /\ pc = "collect_vehicle_data"
    /\ \E raised \in IdListRaises(TRUE) :
          IF raised
          THEN PhaseRaises({}) /\ last_reroute_check' = last_reroute_check
          ELSE CollectVehicleDataReturns

----------------------------------------------------------------------------
(* The end of run_simulation, and calculate_delay *)

\* the loop ends: traci.close(); return True
Close ==
    /\ pc = "simulationStep"
    /\ step >= TotalSteps
    /\ connected' = FALSE
    /\ pc' = "calculate_delay"
    /\ UNCHANGED <<inputs, lookup, eng_veh, eng_obs, arrived_ids, active_program, cmds,
                   faults, step, place_idx, attrs, obstacle_vehicles,
                   obstacle_info, reroute_state, assist_state, remove_count,
                   tracking, results, history,
                   run_outcome, selector_saw>>

RECURSIVE SumOver(_, _)
SumOver(S, f) ==
    IF S = {} THEN 0
    ELSE LET x == CHOOSE y \in S : TRUE IN f[x] + SumOver(S \ {x}, f)

\* a quotient num / den, kept exact
Ratio(num, den) == [num |-> num, den |-> den]

\* variant: the arrival time alone
Duration_Mut(data) == data.arrival_time[1]

\* duration = data['arrival_time'] - data['depart_time']
Duration(data) == data.arrival_time[1] - data.depart_time

\* the dictionary calculate_delay returns
Summary ==
    IF arrived_vehicles = {}
    THEN [average_delay |-> Ratio(0, 1), average_time_loss |-> Ratio(0, 1),
          average_wait_time |-> Ratio(0, 1), average_duration |-> Ratio(0, 1),
          vehicle_count |-> 0]
    ELSE LET total_duration ==
                 SumOver(arrived_vehicles,
                         [v \in arrived_vehicles |-> Duration(vehicle_data[v])])
             total_wait_time ==
                 SumOver(arrived_vehicles,
                         [v \in arrived_vehicles |->
                             vehicle_data[v].total_waiting_time])
             vehicle_count == Cardinality(arrived_vehicles)
             total_time_loss == total_wait_time
         IN [average_delay |-> Ratio(total_time_loss, vehicle_count),
             average_time_loss |-> Ratio(total_time_loss, vehicle_count),
             average_wait_time |-> Ratio(total_wait_time, vehicle_count),
             average_duration |-> Ratio(total_duration, vehicle_count),
             vehicle_count |-> vehicle_count,
             total_time_loss |-> total_time_loss,
             total_wait_time |-> total_wait_time,
             simulation_time |-> sim_time,
             total_departed |-> Cardinality(DOMAIN vehicle_data),
             total_arrived |-> Cardinality(arrived_vehicles)]

\* run: results = self.calculate_delay()
CalculateDelay ==
    /\ pc = "calculate_delay"
    /\ results' = Some(Summary)
    /\ pc' = "done"
    /\ UNCHANGED <<inputs, lookup, engine, step, place_idx, attrs, obstacle_vehicles,
                   obstacle_info, reroute_state, assist_state, remove_count,
                   tracking, history,
                   run_outcome, selector_saw>>

----------------------------------------------------------------------------
(* run: printing, saving, cleaning up; main: the exit status *)

\* the keys print_results reads from the results
PrintedKeys ==
    {"total_departed", "total_arrived", "average_duration", "average_delay",
     "average_wait_time", "total_time_loss", "total_wait_time"}

\* self.print_results(results); self.save_results(results): a key missing
\* from the results raises in print_results, run's handler catches it and
\* run returns None; otherwise the results are saved (an output file is
\* configured) and returned
ReportResults ==
    /\ pc = "done"
    /\ IF PrintedKeys \subseteq DOMAIN results[1]
       THEN /\ saved' = TRUE
            /\ pc' = "returned"
       ELSE /\ saved' = saved
            /\ pc' = "raised"
    /\ UNCHANGED <<inputs, lookup, engine, step, place_idx, attrs, obstacle_vehicles,
                   obstacle_info, reroute_state, assist_state, remove_count,
                   tracking, results, history, temp_dir, exit_status,
                   selector_saw>>

\* the finally clause of run (the temporary directory is removed unless the
\* GUI is used) and main's sys.exit: 0 if run returned results, 1 if it
\* returned None
Finish ==
    /\ pc \in {"failed", "raised", "returned"}
    /\ temp_dir' = IF ~gui THEN FALSE ELSE temp_dir
    /\ exit_status' = Some(IF pc = "returned" THEN 0 ELSE 1)
    /\ pc' = "exit"
    /\ UNCHANGED <<inputs, lookup, engine, step, place_idx, attrs, obstacle_vehicles,
                   obstacle_info, reroute_state, assist_state, remove_count,
                   tracking, results, history, saved, selector_saw>>

----------------------------------------------------------------------------
(* Scenarios *)

Net(known, programs, controlled, initial, volatile) ==
    [known |-> known, programs |-> programs, controlled |-> controlled,
     initial |-> initial, volatile |-> volatile]

\* no lane shapes: the runs take the lane of each descriptor as found
NoGeometry == [shape |-> <<>>, raises |-> <<>>, x |-> 0, y |-> 0]

InitRun(g, m, sl, steps, obs, tr, n, f) ==
    /\ geometry = NoGeometry
    /\ gui = g
    /\ mode = m
    /\ step_length = sl
    /\ sim_time = steps * sl
    /\ obstacles = obs
    /\ traffic = tr
    /\ net = n
    /\ faults = f
    /\ InitController

\* a headless run
InitInputs(m, sl, steps, obs, tr, n, f) ==
    InitRun(FALSE, m, sl, steps, obs, tr, n, f)

LongStep == Sec(LongStepSec)

OnE1L0 == Descriptor(E1, 0, 40, None, "none")
OnE1L0Far == Descriptor(E1, 0, 60, Some(45), "none")
OnE1L1 == Descriptor(E1, 1, 40, None, "none")
OnE2L0 == Descriptor(E2, 0, 40, None, "none")
NoLaneFound == Descriptor(NoEdge, 0, 0, None, "none")

StdPrograms == <<ORG, OPT, LaneIdOf(E1, 0)>>
StdControlled == {LaneIdOf(E1, 0), LaneIdOf(E1, 1), LaneIdOf(E2, 0)}
StdNet(volatile) == Net(TRUE, StdPrograms, StdControlled, ORG, volatile)

OnlyV1(edge) == (V1 :> edge) @@ (V2 :> NoEdge)

\* one vehicle behind obstacles, long steps: escalation over time
InitEscalation ==
    \/ \E f \in {0, 1}, vol \in BOOLEAN :
          InitInputs("dynamic", LongStep, MaxSteps, <<OnE1L0>>, OnlyV1(E1),
                     StdNet(vol), f)
    \/ \E obs \in {<<OnE1L0, OnE1L0Far>>, <<OnE2L0>>} :
          InitInputs("dynamic", LongStep, MaxSteps, obs, OnlyV1(obs[1].edge),
                     StdNet(FALSE), 0)

\* two vehicles on a free edge, one obstacle elsewhere: waiting, removal,
\* arrival and the summary
InitFleet ==
    InitInputs("dynamic", LongStep, MaxSteps, <<OnE1L0>>,
               (V1 :> E3) @@ (V2 :> E3), StdNet(FALSE), 0)

\* the default step length of 0.1 s, long enough for two rerouting runs
InitShortStep ==
    InitInputs("dynamic", ShortStep, 2 * RerouteGate + 1, <<OnE1L0>>, OnlyV1(E1),
               StdNet(FALSE), 0)

\* no traffic, two steps: the program selection over modes, obstacle sets
\* and catalogs
InitSelector ==
    \E m \in {"bench", "opt", "dynamic"},
       obs \in {<<>>, <<OnE1L0>>, <<OnE2L0, OnE1L0>>, <<OnE1L1, OnE1L0>>,
                <<NoLaneFound, OnE1L0>>, <<OnE2L0>>},
       known \in BOOLEAN,
       programs \in {StdPrograms, <<ORG, OPT>>, <<ORG, E1ALT>>, <<ORG>>},
       controlled \in {StdControlled, {LaneIdOf(E1, 0)}, {}},
       f \in {0, 1} :
        InitInputs(m, ShortStep, 2, obs, (V1 :> NoEdge) @@ (V2 :> NoEdge),
                   Net(known, programs, controlled, ORG, FALSE), f)

Init == InitEscalation \/ InitFleet \/ InitShortStep \/ InitSelector

----------------------------------------------------------------------------
(* Specification *)

Next ==
    \/ Start
    \/ AddObstacles
    \/ SimulationStep
    \/ UpdateObstaclePositions
    \/ UpdateTlsProgram
    \/ TriggerRerouting
    \/ AssistStuckVehicles
    \/ RemoveStuckVehicles
    \/ CollectVehicleData
    \/ Close
    \/ CalculateDelay
    \/ ReportResults
    \/ Finish

Spec == Init /\ [][Next]_vars

SpecEscalation == InitEscalation /\ [][Next]_vars
SpecFleet == InitFleet /\ [][Next]_vars
SpecSelector == InitSelector /\ [][Next]_vars
SpecShortStep == InitShortStep /\ [][Next]_vars

\* the families with one obstacle that the session may remove, without call
\* failures
InitVanish ==
    InitInputs("dynamic", LongStep, MaxSteps, <<OnE1L0>>, OnlyV1(E1),
               StdNet(TRUE), 0)
SpecVanish == InitVanish /\ [][Next]_vars

\* dynamic mode with no obstacle or one obstacle, a vehicle on the obstacle's
\* edge, and an engine that may fail one call
UnsettledSteps == 3
InitUnsettled ==
    \E obs \in {<<>>, <<OnE1L0>>}, f \in {0, 1} :
        InitInputs("dynamic", LongStep, UnsettledSteps, obs, OnlyV1(E1),
                   StdNet(FALSE), f)
SpecUnsettled == InitUnsettled /\ [][Next]_vars

\* runs with and without GUI, a vehicle on a free edge, and an engine that
\* may fail one call: how a run ends
OutcomeSteps == 3
InitOutcome ==
    \E g \in BOOLEAN, f \in {0, 1} :
        InitRun(g, "dynamic", LongStep, OutcomeSteps, <<OnE1L0>>, OnlyV1(E3),
                StdNet(FALSE), f)
SpecOutcome == InitOutcome /\ [][Next]_vars

\* one vehicle behind one obstacle on either lane of a two-lane edge or on a
\* single-lane edge, with steps of 30 s or of 65 s, and an engine that may
\* fail one call: the escalation bands and the forced lane change
BandStepSec == 65
BandSteps == 6
InitBands ==
    \/ \E obs \in {<<OnE1L0>>, <<OnE1L1>>, <<OnE2L0>>} :
          InitInputs("dynamic", LongStep, BandSteps, obs, OnlyV1(obs[1].edge),
                     StdNet(FALSE), 0)
    \/ \E f \in {0, 1} :
          InitInputs("dynamic", Sec(BandStepSec), BandSteps, <<OnE1L0>>,
                     OnlyV1(E1), StdNet(FALSE), f)
SpecBands == InitBands /\ [][Next]_vars

\* one vehicle on a free edge, 30 s steps, long enough for the rerouting
\* checks of steps 5 and 10
InitCooldown ==
    InitInputs("dynamic", LongStep, 2 * RerouteGate + 1, <<OnE1L0>>, OnlyV1(E3),
               StdNet(FALSE), 0)

SpecCooldown == InitCooldown /\ [][Next]_vars

\* batches of two descriptors in which the engine may refuse one call of the
\* first or of the second placement, or no lane is found for the first; one
\* vehicle on the obstacles' edge
PlacementSteps == 2
InitPlacement ==
    \E fail \in Range(PlaceCalls) \cup {"none"}, ang \in {None, Some(45)} :
       \E obs \in {<<Descriptor(E1, 0, 40, ang, fail), OnE1L1>>,
                   <<OnE1L0, Descriptor(E1, 1, 40, ang, fail)>>,
                   <<NoLaneFound, OnE1L0>>} :
          InitInputs("dynamic", LongStep, PlacementSteps, obs, OnlyV1(E1),
                     StdNet(FALSE), 0)

SpecPlacement == InitPlacement /\ [][Next]_vars

\* the lookup on its own: each lane has one of a few shapes, at most one call
\* of the lookup raises, and the point is one of two
ShapeChoices ==
    {<<>>, <<<<1, 0>>>>, <<<<0, 1>>>>, <<<<2, 0>>, <<1, 1>>>>}
PointChoices == {<<0, 0>>, <<1, 1>>}
InitNearest ==
    /\ \E shape \in [AllLanes -> ShapeChoices],
          raises \in {NoRaise, EdgeIdListRaises} \cup Edges \cup AllLanes,
          pt \in PointChoices :
          geometry = [shape |-> shape, raises |-> raises,
                      x |-> pt[1], y |-> pt[2]]
    /\ gui = FALSE
    /\ mode = "dynamic"
    /\ step_length = ShortStep
    /\ sim_time = ShortStep
    /\ obstacles = <<>>
    /\ traffic = (V1 :> NoEdge) @@ (V2 :> NoEdge)
    /\ net = StdNet(FALSE)
    /\ faults = 0
    /\ InitController

NextNearest == FindNearestEdgeCall

SpecNearest == InitNearest /\ [][NextNearest]_vars

----------------------------------------------------------------------------
(* Properties *)

\* C1: a vehicle that stands behind an obstacle in two consecutive escalation
\* passes is never given a lower escalation tier in the second pass than in
\* the first, also when an engine query on it fails in between.
C1_TierNeverRegresses ==
    [][\A v \in Vehs :
          (pc = "assist_stuck_vehicles" /\ history[v].stuck /\ BehindObstacle(v))
              => history'[v].tier >= history[v].tier]_vars

\* C2: a vehicle with a StuckTimer that does not stand behind an obstacle in a
\* step (it moved, sped up, or no obstacle entity is left) has lost its timer
\* after the escalation pass of that step and, if it is still in the session,
\* has been sent the default lane-change mode and the baseline parameters.
C2_ResetWhenNotStuck ==
    [][\A v \in Vehs :
          (pc = "assist_stuck_vehicles" /\ v \in DOMAIN stuck_timers
           /\ ~BehindObstacle(v))
              => /\ v \notin DOMAIN stuck_timers'
                 /\ v \in ActiveVehs =>
                       /\ Cmd("setLaneChangeMode", v, <<>>,
                              <<DefaultLaneChangeMode>>) \in cmds'
                       /\ SetParamCmds(v, BaseParams, 3) \subseteq cmds']_vars

\* the lane-change commands (mode, parameters, lane change) sent to v
LaneChangeCmds(v, issued) ==
    {c \in issued : c.ent = v /\ c.op \in {"setLaneChangeMode", "changeLane",
                                           "setParameter"}}

\* C3: a vehicle without a StuckTimer (in particular one whose timer was
\* removed by a reset) that stands behind an obstacle in a pass in which no
\* engine call fails gets a timer; a timer created in a pass starts at that
\* step's simulation time, and no lane-change command is sent to a vehicle
\* whose timer is 30 s old or younger.
C3_TimerRestartsFromZero ==
    [][\A v \in Vehs :
          pc = "assist_stuck_vehicles" =>
             /\ (v \notin DOMAIN stuck_timers /\ BehindObstacle(v)
                 /\ faults' = faults) => v \in DOMAIN stuck_timers'
             /\ (v \notin DOMAIN stuck_timers /\ v \in DOMAIN stuck_timers')
                    => stuck_timers'[v] = CurrentTime
             /\ (v \in DOMAIN stuck_timers'
                 /\ CurrentTime - stuck_timers'[v] <= Sec(ModerateAfter))
                    => LaneChangeCmds(v, cmds') = {}]_vars

\* a vehicle that was reset earlier stands behind an obstacle again, with a
\* fresh timer
C3_Witness ==
    \E v \in Vehs :
        /\ pc = "remove_stuck_vehicles"
        /\ history[v].reset
        /\ v \in DOMAIN stuck_timers
        /\ stuck_timers[v] = CurrentTime
        /\ CurrentTime > 0

\* C4: every invocation of update_tls_program after the first one (step >= 1)
\* issues no setProgram command and leaves the active program unchanged.
C4_SelectorActsOnce ==
    [][(pc = "update_tls_program" /\ step >= 1)
          => /\ active_program' = active_program
             /\ \A c \in cmds' : c.op # "setProgram"]_vars

\* the second invocation has returned, after a first one that switched the
\* program
C4_Witness ==
    /\ pc = "trigger_rerouting"
    /\ step >= 1
    /\ active_program # net.initial

\* C5: no removal command is ever issued for an obstacle entity.
C5_NoObstacleRemoved ==
    \A c \in cmds : c.op = "remove" => ~IsObstacleId(c.ent)

\* a sweep that removed a vehicle while an obstacle entity with a waiting
\* time over the threshold was in the session, and still is
C5_Witness ==
    /\ pc = "collect_vehicle_data"
    /\ \E c \in cmds : c.op = "remove"
    /\ \E o \in PresentObs : WaitingTime(o) >= Sec(RemoveThreshold)

\* C6: a Reaper sweep in which no engine call fails removes every vehicle of
\* the session whose waiting time is 180 s or more, in that step; and no
\* sweep removes a vehicle whose waiting time is below 180 s.
C6_ReaperThreshold ==
    [][pc = "remove_stuck_vehicles" =>
          \A v \in ActiveVehs :
             /\ (eng_veh[v].wait >= Sec(RemoveThreshold) /\ faults' = faults)
                   => /\ eng_veh'[v].st = "removed"
                      /\ Cmd("remove", v, <<>>, <<2>>) \in cmds'
             /\ eng_veh[v].wait < Sec(RemoveThreshold)
                   => /\ eng_veh'[v] = eng_veh[v]
                      /\ \A c \in cmds' : ~(c.op = "remove" /\ c.ent = v)]_vars

\* a sweep removed one vehicle and left the other, which waits, in the session
C6_Witness ==
    /\ pc = "collect_vehicle_data"
    /\ \E v, w \in Vehs :
          /\ Cmd("remove", v, <<>>, <<2>>) \in cmds
          /\ eng_veh[v].st = "removed"
          /\ eng_veh[w].st = "active"
          /\ eng_veh[w].wait > 0

\* the vehicles that were seen in the session and later reported arrived
Arrivals ==
    {v \in Vehs : history[v].seen # None /\ history[v].arrived # None}

TrueDuration(v) == history[v].arrived[1] - history[v].seen[1]

\* C7: in the summary, the duration of every vehicle first seen at t0 and
\* first reported arrived at t1 is t1 - t0, and average_duration is the mean
\* of these durations over the arrived vehicles.
C7_DurationIsArrivalMinusDepart ==
    (pc = "done" /\ Arrivals # {}) =>
        /\ \A v \in Arrivals :
              /\ v \in arrived_vehicles
              /\ vehicle_data[v].arrival_time # None
              /\ vehicle_data[v].arrival_time[1] - vehicle_data[v].depart_time
                    = TrueDuration(v)
        /\ results[1].average_duration.den # 0
        /\ results[1].average_duration.num * Cardinality(Arrivals)
              = results[1].average_duration.den
                  * SumOver(Arrivals, [v \in Arrivals |-> TrueDuration(v)])

\* two vehicles that departed at different times have arrived, with
\* different durations
C7_Witness ==
    /\ pc = "done"
    /\ Arrivals = Vehs
    /\ TrueDuration(V1) # TrueDuration(V2)
    /\ history[V1].seen # history[V2].seen

\* C8: in the summary, every tracked vehicle without an arrival time is
\* counted in total_departed and in neither total_arrived nor the averages,
\* also when no vehicle has arrived.
C8_UnarrivedCountedAsDeparted ==
    pc = "done" =>
        LET r == results[1]
            arrived == {v \in DOMAIN vehicle_data :
                          vehicle_data[v].arrival_time # None}
        IN /\ {"total_departed", "total_arrived"} \subseteq DOMAIN r
           /\ r.total_departed = Cardinality(DOMAIN vehicle_data)
           /\ r.total_arrived = Cardinality(arrived)
           /\ r.vehicle_count = Cardinality(arrived)

\* C9: a rerouting run that follows an earlier run starts at least 5
\* simulated seconds after it.
C9_RerouteGateInSimTime ==
    [][(pc = "trigger_rerouting" /\ last_reroute_check' # last_reroute_check
        /\ last_reroute_check > 0)
          => (step - last_reroute_check) * step_length >= Sec(RerouteGate)]_vars

\* C10: in dynamic mode with settled obstacles, when the lane of some settled
\* obstacle is controlled and is an available program id, the first
\* invocation selects the program of the first such obstacle.
C10_FirstMatchingObstacleWins ==
    [][(/\ pc = "update_tls_program"
        /\ step = 0
        /\ mode = "dynamic"
        /\ HasAttr("obstacle_info")
        /\ net.known
        /\ faults' = faults)
          => LET lane(i) == LaneIdOf(obstacle_info[i].edge, obstacle_info[i].lane)
                 both == {i \in 1..Len(obstacle_info) :
                             /\ lane(i) \in net.controlled
                             /\ lane(i) \in Range(net.programs)}
             IN both # {} =>
                   LET first == CHOOSE i \in both : \A j \in both : i <= j
                   IN /\ Cmd("setProgram", TLS, lane(first), <<>>) \in cmds'
                      /\ active_program' = lane(first)]_vars

\* the first invocation of the selector in dynamic mode with settled
\* obstacles, on a known traffic light, without a failing engine call
AdaptiveSelection ==
    /\ pc = "update_tls_program"
    /\ step = 0
    /\ mode = "dynamic"
    /\ HasAttr("obstacle_info")
    /\ obstacle_info # <<>>
    /\ net.known
    /\ faults' = faults

SettledLane(i) == LaneIdOf(obstacle_info[i].edge, obstacle_info[i].lane)

\* some settled obstacle's lane is controlled and is an available program id
LaneProgramMatches ==
    \E i \in 1..Len(obstacle_info) :
        /\ SettledLane(i) \in net.controlled
        /\ SettledLane(i) \in Range(net.programs)

\* the available programs whose id has the first settled obstacle's edge id
\* as prefix
EdgePrograms ==
    {p \in Range(net.programs) : StartsWith(p, obstacle_info[1].edge)}

\* C11: in dynamic mode with settled obstacles, when no obstacle lane is both
\* controlled and an available program id and some available program has
\* the first obstacle's edge id as prefix, the selector requests such a
\* program and it becomes active, whether or not an obstacle lane is
\* controlled.
C11_EdgePrefixProgramSelected ==
    [][(AdaptiveSelection /\ ~LaneProgramMatches /\ EdgePrograms # {})
          => /\ \E p \in EdgePrograms : Cmd("setProgram", TLS, p, <<>>) \in cmds'
             /\ active_program' \in EdgePrograms]_vars

\* C12: in dynamic mode with settled obstacles, when neither a lane program
\* nor an edge-prefix program matches, the optimized program is active after
\* the selection if it is in the catalog, and the default program otherwise.
C12_OptimizedElseDefault ==
    [][(AdaptiveSelection /\ ~LaneProgramMatches /\ EdgePrograms = {})
          => active_program' =
                IF OPT \in Range(net.programs) THEN OPT ELSE ORG]_vars

\* C13: the first invocation of the selector requests "org" in bench mode
\* and "opt" in opt mode and nothing else, whatever the obstacles, the
\* settled obstacles, the catalog and the outcome of the engine call.
C13_FixedModesIgnoreObstacles ==
    [][(pc = "update_tls_program" /\ step = 0 /\ mode \in {"bench", "opt"})
          => {c.strs : c \in {d \in cmds' : d.op = "setProgram"}}
                = {IF mode = "bench" THEN ORG ELSE OPT}]_vars

\* opt mode with a settled obstacle whose lane has a program of its own:
\* "opt" was requested
C13_Witness ==
    /\ pc = "trigger_rerouting"
    /\ step = 0
    /\ mode = "opt"
    /\ obstacle_info # <<>>
    /\ LaneProgramMatches
    /\ Cmd("setProgram", TLS, OPT, <<>>) \in cmds

\* the first invocation of the selector in dynamic mode finds no settled
\* obstacle and leaves the default program active
DefaultKeptWithoutSettled ==
    (pc = "update_tls_program" /\ step = 0 /\ mode = "dynamic"
     /\ obstacle_info = <<>>)
        => active_program' = ORG

SelectorFails ==
    /\ pc = "update_tls_program"
    /\ step = 0
    /\ \/ faults' # faults
       \/ ~net.known
       \/ \E c \in cmds' : c.op = "setProgram" /\ c.strs \notin Range(net.programs)

\* C15: when the selector's invocation fails at the engine, the program
\* active before it stays active, update_tls_program returns normally and
\* the step goes on with the rerouting check on an open connection.
C15_FailedSelectionKeepsProgram ==
    [][SelectorFails => /\ active_program' = active_program
                        /\ pc' = "trigger_rerouting"
                        /\ connected']_vars

\* a request for an available program other than the active one has failed
\* and the step has gone on
C15_Witness ==
    /\ pc = "trigger_rerouting"
    /\ step = 0
    /\ net.known
    /\ \E c \in cmds : /\ c.op = "setProgram"
                       /\ c.strs \in Range(net.programs)
                       /\ c.strs # active_program

\* the phases of one step that follow the engine step, in the order of the
\* loop body, and the phase after each
PhasesOfStep ==
    <<"update_obstacle_positions", "update_tls_program", "trigger_rerouting",
      "assist_stuck_vehicles", "remove_stuck_vehicles", "collect_vehicle_data",
      "simulationStep">>
InPhase == \E i \in 1..6 : pc = PhasesOfStep[i]
NextPhase == PhasesOfStep[1 + CHOOSE i \in 1..6 : pc = PhasesOfStep[i]]

\* C16: a phase of a step in which an engine operation fails still hands
\* over to the next phase of the loop, on an open connection.
C16_FailuresNeverAbort ==
    [][(InPhase /\ faults' # faults)
          => pc' = NextPhase /\ connected']_vars

\* C17: once the engine could not be started or a call raised out of the
\* step loop, the connection is closed, no further step or command is
\* executed, no summary is computed or saved, the temporary directory is
\* removed and the run exits with status 1.
C17_FatalErrorTearsDown ==
    [][pc = "failed"
          => /\ ~connected
             /\ step' = step /\ cmds' = cmds /\ eng_veh' = eng_veh
             /\ results' = None
             /\ ~saved'
             /\ ~temp_dir'
             /\ exit_status' = Some(1)]_vars

\* C18: after the engine step the phases of a step run in the order
\* re-assert, selection, rerouting check, escalation, Reaper, aggregator,
\* one at a time; the step counter changes only at the end of the
\* aggregator phase; and the timers the escalation creates and the depart
\* and arrival times the aggregator records in a step are that step's time.
C18_PhaseOrderAndStepTime ==
    [][/\ pc = "simulationStep"
            => pc' \in {"update_obstacle_positions", "calculate_delay", "failed"}
       /\ InPhase => /\ pc' \in {NextPhase, "failed"}
                     /\ step' = IF pc' = "simulationStep" THEN step + 1 ELSE step
       /\ pc = "assist_stuck_vehicles"
            => \A v \in (DOMAIN stuck_timers') \ (DOMAIN stuck_timers) :
                  stuck_timers'[v] = step * step_length
       /\ pc = "collect_vehicle_data"
            => \A v \in DOMAIN vehicle_data' :
                  /\ v \notin DOMAIN vehicle_data
                        => vehicle_data'[v].depart_time = step * step_length
                  /\ v \in arrived_vehicles' \ arrived_vehicles
                        => vehicle_data'[v].arrival_time = Some(step * step_length)]_vars

\* a vehicle that entered the session behind an obstacle after the first
\* step: its timer and its depart time are the same step time
C18_Witness ==
    /\ pc = "simulationStep"
    /\ \E v \in DOMAIN stuck_timers :
          /\ v \in DOMAIN vehicle_data
          /\ stuck_timers[v] > 0
          /\ stuck_timers[v] = vehicle_data[v].depart_time

\* the ten fields of the summary record
SummaryFields ==
    {"average_delay", "average_time_loss", "average_wait_time",
     "average_duration", "vehicle_count", "total_time_loss", "total_wait_time",
     "simulation_time", "total_departed", "total_arrived"}

\* C19: after a completed step loop the summary has the ten fields, and the
\* run that returned it saves it and exits with status 0.
C19_SummaryHasTenFields ==
    /\ results # None => DOMAIN results[1] = SummaryFields
    /\ (pc = "exit" /\ results # None) => saved /\ exit_status = Some(0)

\* the registered obstacles that are in the session: the obstacle index of
\* an escalation pass in which no query fails
IndexedObstacles ==
    {i \in 1..Len(obstacle_vehicles) : obstacle_vehicles[i].id \in PresentObs}

\* the gap between obstacle i and vehicle v, which is on the obstacle's lane
GapTo(i, v) == eng_obs[obstacle_vehicles[i].id].pos - eng_veh[v].pos

\* v is on the lane of some indexed obstacle, less than 30 behind it, and
\* slower than 1.0
CloseBehindSlow(v) ==
    \E i \in IndexedObstacles :
        /\ LaneIdOf(obstacle_vehicles[i].edge, obstacle_vehicles[i].lane)
              = eng_veh[v].lane
        /\ 0 < GapTo(i, v)
        /\ GapTo(i, v) < 30
        /\ eng_veh[v].speed < 1

\* C20: an escalation pass gives a timer only to a vehicle that is on the
\* lane of an indexed obstacle with 0 < gap < 30 and speed < 1.0; and after
\* a pass with a non-empty index in which no engine call fails, the vehicles
\* of the session that hold a timer (the vehicles classified as stuck) are
\* exactly those.
C20_StuckIffCloseBehindSlow ==
    [][pc = "assist_stuck_vehicles" =>
          \A v \in ActiveVehs :
             /\ (v \in DOMAIN stuck_timers' /\ v \notin DOMAIN stuck_timers)
                   => CloseBehindSlow(v)
             /\ (faults' = faults /\ HasAttr("obstacle_vehicles")
                 /\ IndexedObstacles # {})
                   => (v \in DOMAIN stuck_timers' <=> CloseBehindSlow(v))]_vars

\* a vehicle that was stuck stands level with the obstacle after a pass and
\* holds no timer
C20_Witness ==
    \E v \in ActiveVehs :
        /\ pc = "remove_stuck_vehicles"
        /\ history[v].reset
        /\ v \notin DOMAIN stuck_timers
        /\ eng_veh[v].speed = 0
        /\ \E i \in IndexedObstacles :
              /\ LaneIdOf(obstacle_vehicles[i].edge, obstacle_vehicles[i].lane)
                    = eng_veh[v].lane
              /\ GapTo(i, v) = 0

\* the time v has been stuck for, after a pass that left it a timer
Elapsed(v) == CurrentTime - stuck_timers'[v]

\* v is classified as stuck by a pass in which no engine call fails
StuckInCleanPass(v) ==
    /\ pc = "assist_stuck_vehicles"
    /\ v \in ActiveVehs
    /\ CloseBehindSlow(v)
    /\ faults' = faults
    /\ v \in DOMAIN stuck_timers'

\* the pass overrides the lane-change mode of v or asks v to change lane
Forced(v, issued) ==
    \E c \in issued : /\ c.ent = v
                      /\ \/ c.op = "changeLane"
                         \/ c.op = "setLaneChangeMode" /\ c.ints = <<0>>

\* C21 as stated: nothing below 30 s, the moderate parameters from 30 s to
\* 60 s, the high parameters from 60 s to 100 s (either of the two at 60 s),
\* a forced lane change and a mode override only above 100 s.
C21_BandsFromThirty ==
    [][\A v \in Vehs :
          StuckInCleanPass(v) =>
             /\ Elapsed(v) < Sec(30) => LaneChangeCmds(v, cmds') = {}
             /\ (Sec(30) <= Elapsed(v) /\ Elapsed(v) < Sec(60))
                   => SetParamCmds(v, ModerateParams, 3) \subseteq cmds'
             /\ Elapsed(v) = Sec(60)
                   => \/ SetParamCmds(v, ModerateParams, 3) \subseteq cmds'
                      \/ SetParamCmds(v, HighParams, 3) \subseteq cmds'
             /\ (Sec(60) < Elapsed(v) /\ Elapsed(v) <= Sec(100))
                   => SetParamCmds(v, HighParams, 3) \subseteq cmds'
             /\ Forced(v, cmds') => Elapsed(v) > Sec(100)]_vars

\* C21 amended: nothing up to and including 30 s, exactly the moderate
\* parameters above 30 s up to 60 s, exactly the high parameters above 60 s
\* up to 100 s (so at 65 s), a mode override and no parameters above 100 s.
C21_BandsAboveThirty ==
    [][\A v \in Vehs :
          StuckInCleanPass(v) =>
             /\ Elapsed(v) <= Sec(30) => LaneChangeCmds(v, cmds') = {}
             /\ (Sec(30) < Elapsed(v) /\ Elapsed(v) <= Sec(60))
                   => LaneChangeCmds(v, cmds') = SetParamCmds(v, ModerateParams, 3)
             /\ (Sec(60) < Elapsed(v) /\ Elapsed(v) <= Sec(100))
                   => LaneChangeCmds(v, cmds') = SetParamCmds(v, HighParams, 3)
             /\ Elapsed(v) > Sec(100)
                   => /\ Cmd("setLaneChangeMode", v, <<>>, <<0>>) \in cmds'
                      /\ \A c \in LaneChangeCmds(v, cmds') : c.op # "setParameter"]_vars

\* a vehicle stuck for 65 s has been given the high parameters
C21_Witness ==
    \E v \in DOMAIN stuck_timers :
        /\ pc = "remove_stuck_vehicles"
        /\ CurrentTime - stuck_timers[v] = Sec(BandStepSec)
        /\ SetParamCmds(v, HighParams, 3) \subseteq cmds
        /\ ~Forced(v, cmds)

\* C22: a vehicle stuck for more than 100 s gets, in every pass in which no
\* engine call fails, a lane-change mode override and, on a two-lane edge,
\* a move to the other lane (index + 1 from lane 0, index - 1 from lane
\* 1); the target is a lane of its edge other than its own; on a single-lane
\* edge no move is requested.
C22_ForcedMoveToNeighbourLane ==
    [][\A v \in Vehs :
          (StuckInCleanPass(v) /\ Elapsed(v) > Sec(100)) =>
             LET cur == IndexOfLane(eng_veh[v].lane)
                 n == LaneNumber(EdgeOfLane(eng_veh[v].lane))
                 moves == {c \in cmds' : c.ent = v /\ c.op = "changeLane"}
             IN /\ Cmd("setLaneChangeMode", v, <<>>, <<0>>) \in cmds'
                /\ \A c \in moves : /\ c.ints[1] \in 0..(n - 1)
                                    /\ c.ints[1] # cur
                /\ n = 1 => moves = {}
                /\ (n > 1 /\ cur + 1 < n)
                      => moves = {Cmd("changeLane", v, <<>>, <<cur + 1, 15>>)}
                /\ (n > 1 /\ cur + 1 >= n)
                      => moves = {Cmd("changeLane", v, <<>>, <<cur - 1, 15>>)}]_vars

\* a vehicle on lane 1 of a two-lane edge, stuck for more than 100 s in two
\* passes, has been asked to move to lane 0
C22_Witness ==
    \E v \in (DOMAIN stuck_timers) \cap ActiveVehs :
        /\ pc = "remove_stuck_vehicles"
        /\ CurrentTime - stuck_timers[v] > Sec(100) + step_length
        /\ IndexOfLane(eng_veh[v].lane) = 1
        /\ Cmd("changeLane", v, <<>>, <<0, 15>>) \in cmds
        /\ lc_force_count >= 2

\* the vehicles a sweep removes
ReapedNow == {v \in Vehs : eng_veh[v].st = "active" /\ eng_veh'[v].st = "removed"}

\* C23: every vehicle a Reaper sweep removes has a tracking record when it
\* is removed, and the summary counts every removed vehicle in
\* total_departed.
C23_ReapedAreTracked ==
    [][/\ pc = "remove_stuck_vehicles" => ReapedNow \subseteq DOMAIN vehicle_data
       /\ pc = "done"
            => /\ "total_departed" \in DOMAIN results[1]
               /\ {v \in Vehs : eng_veh[v].st = "removed"} \subseteq DOMAIN vehicle_data
               /\ results[1].total_departed = Cardinality(DOMAIN vehicle_data)]_vars

\* C24: a vehicle whose accumulated wait exceeds the removal threshold is
\* removed by the Reaper sweep of the step, is never among the arrived
\* vehicles, and keeps its tracking record so it counts as departed.
C24_AccumulatedWaitReaped ==
    [][(/\ pc = "remove_stuck_vehicles"
        /\ pc' = "collect_vehicle_data"
        /\ faults' = faults)
          => \A v \in ActiveVehs :
                eng_veh[v].acc > Sec(RemoveThreshold)
                  => /\ eng_veh'[v].st = "removed"
                     /\ v \notin arrived_vehicles'
                     /\ v \in DOMAIN vehicle_data']_vars

\* the entities a reroute command of the step's log addresses
RerouteTargets(issued) == {c.ent : c \in {d \in issued : d.op = "rerouteTraveltime"}}

\* C25: a rerouting check whose gate is open, and in which no engine call
\* raises, issues a reroute command to exactly the active non-obstacle
\* vehicles with accumulated wait > 30 s and speed < 1.0 and adds the number
\* of commands to the counter; with the gate closed it issues none and
\* leaves the counter; no obstacle entity is ever rerouted.
C25_RerouteExactlySlowVehicles ==
    [][(/\ pc = "trigger_rerouting"
        /\ pc' = "assist_stuck_vehicles"
        /\ faults' = faults)
          => /\ RerouteTargets(cmds) = {}
             /\ RerouteTargets(cmds') \cap PresentObs = {}
             /\ IF step - (IF HasAttr("last_reroute_check")
                           THEN last_reroute_check ELSE 0) < 5
                THEN RerouteTargets(cmds') = {} /\ reroute_count' = reroute_count
                ELSE /\ RerouteTargets(cmds') =
                           {v \in ActiveVehs : /\ eng_veh[v].acc > Sec(30)
                                               /\ eng_veh[v].speed < 1}
                     /\ reroute_count' =
                           reroute_count + Cardinality(RerouteTargets(cmds'))]_vars

\* a run rerouted one vehicle and left the moving one and the obstacle alone
C25_Witness ==
    /\ pc = "assist_stuck_vehicles"
    /\ last_reroute_check = step
    /\ step > 0
    /\ PresentObs # {}
    /\ RerouteTargets(cmds) = {V1}
    /\ V2 \in ActiveVehs
    /\ eng_veh[V2].acc > Sec(30)
    /\ reroute_count = 1

\* C26: the only vehicle of the run was rerouted by an earlier check (one
\* reroute is counted); if the gate of a later check is open and the vehicle
\* still has accumulated wait > 30 s and speed < 1.0, that check reroutes it
\* again.
C26_NoPerVehicleCooldown ==
    [][(/\ pc = "trigger_rerouting"
        /\ pc' = "assist_stuck_vehicles"
        /\ reroute_count >= 1
        /\ step - last_reroute_check >= 5
        /\ V1 \in ActiveVehs
        /\ eng_veh[V1].acc > Sec(30)
        /\ eng_veh[V1].speed < 1)
          => /\ V1 \in RerouteTargets(cmds')
             /\ reroute_count' = reroute_count + 1]_vars

\* the check of step 10 rerouted the vehicle the check of step 5 had rerouted
C26_Witness ==
    /\ pc = "assist_stuck_vehicles"
    /\ step = 2 * 5
    /\ last_reroute_check = step
    /\ V1 \in RerouteTargets(cmds)
    /\ reroute_count = 2

\* the tracked vehicles whose arrival time is set
ArrivalSet(data) == {v \in DOMAIN data : data[v].arrival_time # None}

C28_RecordCreatedOnFirstSight ==
    [][/\ \A v \in DOMAIN vehicle_data :
             /\ v \in DOMAIN vehicle_data'
             /\ vehicle_data'[v].depart_time = vehicle_data[v].depart_time
       /\ \A v \in (DOMAIN vehicle_data') \ DOMAIN vehicle_data :
             /\ pc = "collect_vehicle_data"
             /\ v \in ActiveVehs
             /\ history[v].seen = None
             /\ vehicle_data'[v].depart_time = step * step_length
             /\ vehicle_data'[v].arrival_time = None
       /\ (pc = "collect_vehicle_data" /\ pc' = "simulationStep")
             => ActiveVehs \subseteq DOMAIN vehicle_data'
       /\ \A k \in DOMAIN vehicle_data' :
             ~IsObstacleId(k) /\ k \notin DOMAIN eng_obs]_vars

\* a vehicle that entered after the first step is still active two updates
\* later, next to an obstacle entity that is present
C28_Witness ==
    \E v \in ActiveVehs \cap DOMAIN vehicle_data :
        /\ pc = "simulationStep"
        /\ vehicle_data[v].depart_time > 0
        /\ vehicle_data[v].depart_time + step_length < step * step_length
        /\ PresentObs # {}

\* the registered obstacles whose entity is in the session
PresentRegistered == {o \in Range(obstacle_vehicles) : o.id \in PresentObs}

\* the commands of a log that hold an entity in place
HoldCmds(issued) == {c \in issued : c.op \in {"moveToXY", "setSpeed"}}

\* C29: a re-assertion pass in which no engine call raises sends, for every
\* registered obstacle whose entity is present, the position override with
\* the registered edge, lane, x, y and angle and the command that sets its
\* speed to zero, and nothing else; the settled set of the step is exactly
\* these obstacles, in registry order; an obstacle whose entity is gone is
\* left out, and the step goes on to the next phase.
C29_PresentObstaclesReasserted ==
    [][(/\ pc = "update_obstacle_positions"
        /\ HasAttr("obstacle_vehicles")
        /\ faults' = faults)
          => /\ HoldCmds(cmds') =
                   {Cmd("moveToXY", o.id, o.edge, <<o.lane, o.x, o.y, o.angle, 2>>) :
                        o \in PresentRegistered}
                   \cup {Cmd("setSpeed", o.id, <<>>, <<0>>) : o \in PresentRegistered}
             /\ Range(obstacle_info') = PresentRegistered
             /\ Len(obstacle_info') = Cardinality(PresentRegistered)
             /\ \A i, j \in 1..Len(obstacle_info') :
                   i < j => \E a, b \in 1..Len(obstacle_vehicles) :
                               /\ a < b
                               /\ obstacle_vehicles[a] = obstacle_info'[i]
                               /\ obstacle_vehicles[b] = obstacle_info'[j]
             /\ pc' = "update_tls_program"]_vars

\* the obstacle was re-asserted in an earlier step, its entity has since been
\* removed from the session, and the pass of this step left it out
C29_Witness ==
    /\ pc = "update_tls_program"
    /\ step >= 2
    /\ HasAttr("_tls_program_applied")
    /\ obstacle_vehicles # <<>>
    /\ PresentRegistered = {}
    /\ obstacle_info = <<>>
    /\ HoldCmds(cmds) = {}

\* C30: once placement has finished, no step of the run changes the obstacle
\* registry: the list of records, with their ids, positions, angles, edges
\* and lanes, is the same in every state of the step loop and after it.
C30_RegistryFixedAfterPlacement ==
    [][pc \notin {"start", "add_obstacles"}
          => /\ obstacle_vehicles' = obstacle_vehicles
             /\ HasAttr("obstacle_vehicles") <=> ("obstacle_vehicles" \in attrs')]_vars

\* the loop has run for two steps, the entity of the registered obstacle has
\* been removed from the session, and its record is still in the registry
C30_Witness ==
    /\ pc = "collect_vehicle_data"
    /\ step >= 2
    /\ Len(obstacle_vehicles) = 1
    /\ obstacle_vehicles[1] = ObstacleRecord(0, obstacles[1])
    /\ PresentObs = {}
    /\ obstacle_info = <<>>

\* descriptor d (1-based position i in the batch) has been through the
\* placement loop
Attempted(i) == i <= place_idx

\* a lane is found for the descriptor and none of the engine calls its
\* placement makes raises (the lane angle is asked for only without an angle)
PlacesCleanly(d) ==
    /\ d.edge # NoEdge
    /\ \/ d.fail \notin Range(PlaceCalls)
       \/ d.fail = "getAngle" /\ d.angle # None

\* the positions in the registry of the records with the id of descriptor i
RecordsOf(i) ==
    {j \in 1..Len(obstacle_vehicles) :
        obstacle_vehicles[j].id = <<"obstacle", "veh", DigitStr(i - 1)>>}

\* C31: after each placement, a descriptor for which no lane is found or
\* whose placement raises has no record; each cleanly placed descriptor has
\* exactly one record, with the id of its descriptor index and its edge, lane
\* and position; the records are in descriptor order; and the loop goes
\* through every descriptor of the batch whatever happened to earlier ones.
C31_FailedDescriptorSkipped ==
    /\ \A i \in 1..Len(obstacles) :
          IF Attempted(i) /\ PlacesCleanly(obstacles[i])
          THEN /\ Cardinality(RecordsOf(i)) = 1
               /\ \A j \in RecordsOf(i) :
                     /\ obstacle_vehicles[j].edge = obstacles[i].edge
                     /\ obstacle_vehicles[j].lane = obstacles[i].lane
                     /\ obstacle_vehicles[j].x = obstacles[i].x
                     /\ obstacle_vehicles[j].y = obstacles[i].y
          ELSE RecordsOf(i) = {}
    /\ \A i1, i2 \in 1..Len(obstacles) :
          \A j1 \in RecordsOf(i1), j2 \in RecordsOf(i2) : i1 < i2 => j1 < j2
    /\ Len(obstacle_vehicles) <= Len(obstacles)
    /\ (\A j \in 1..Len(obstacle_vehicles) :
           \E i \in 1..Len(obstacles) : j \in RecordsOf(i))
    /\ pc \notin {"start", "add_obstacles", "failed", "exit"}
          => place_idx = Len(obstacles)

\* the first placement raised after its entity was created, and the second
\* descriptor is registered with the id of its own index
C31_Witness ==
    /\ pc = "simulationStep"
    /\ Len(obstacles) = 2
    /\ place_idx = 2
    /\ obstacles[1].fail = "setStop"
    /\ Len(obstacle_vehicles) = 1
    /\ obstacle_vehicles[1].id = <<"obstacle", "veh", "1">>
    /\ obstacle_vehicles[1].lane = 1

\* C37: every obstacle entity created in the engine has a record in the
\* registry, whichever placement call raised.
C37_CreatedEntityHasRecord ==
    \A id \in DOMAIN eng_obs :
        \E j \in 1..Len(obstacle_vehicles) : obstacle_vehicles[j].id = id

\* v is on the lane of an obstacle of the step's settled set, less than 30
\* behind it, and slower than 1.0
BehindSettled(v) ==
    \E i \in 1..Len(obstacle_info) :
        LET obs == obstacle_info[i] IN
        /\ LaneIdOf(obs.edge, obs.lane) = eng_veh[v].lane
        /\ 0 < eng_obs[obs.id].pos - eng_veh[v].pos
        /\ eng_obs[obs.id].pos - eng_veh[v].pos < 30
        /\ eng_veh[v].speed < 1

\* C32: the escalation pass works on the settled set of its step: a vehicle
\* gets a StuckTimer only behind an obstacle of the settled set, under the
\* lane id of the obstacle's registered edge and lane; and in a pass in which
\* no query raises every vehicle behind a settled obstacle holds a timer.
C32_IndexIsSettledSet ==
    [][(pc = "assist_stuck_vehicles" /\ pc' = "remove_stuck_vehicles")
          => \A v \in ActiveVehs :
                /\ (v \notin DOMAIN stuck_timers /\ v \in DOMAIN stuck_timers')
                      => BehindSettled(v)
                /\ (BehindSettled(v) /\ faults' = faults)
                      => v \in DOMAIN stuck_timers']_vars

\* the vehicles whose lane-change safety mode a log overrides
Overridden(issued) ==
    {c.ent : c \in {d \in issued : d.op = "setLaneChangeMode" /\ d.ints = <<0>>}}

\* the registered obstacles in the session that satisfy the stuck predicate
\* for v
ObstaclesAhead(v) ==
    {i \in IndexedObstacles :
        /\ LaneIdOf(obstacle_vehicles[i].edge, obstacle_vehicles[i].lane)
              = eng_veh[v].lane
        /\ 0 < GapTo(i, v) /\ GapTo(i, v) < 30 /\ eng_veh[v].speed < 1}

\* C33: however many obstacles of a vehicle's lane satisfy the stuck
\* predicate, an escalation pass gives the vehicle one timer value, issues
\* the commands of one tier only, and adds at most one to the forced-change
\* counter for each vehicle whose safety mode it overrides (exactly one when
\* no call raises).
C33_FirstMatchingObstacleOnly ==
    [][(pc = "assist_stuck_vehicles" /\ pc' = "remove_stuck_vehicles")
          => /\ lc_force_count' - lc_force_count <= Cardinality(Overridden(cmds'))
             /\ faults' = faults
                   => lc_force_count' - lc_force_count
                         = Cardinality(Overridden(cmds'))
             /\ \A v \in ActiveVehs :
                   /\ Cardinality({c \in cmds' : c.ent = v /\ c.op = "changeLane"}) <= 1
                   /\ v \in Overridden(cmds')
                         => {c \in cmds' : c.ent = v /\ c.op = "setParameter"} = {}
                   /\ Cardinality({c.strs[2] : c \in
                         {d \in cmds' : d.ent = v /\ d.op = "setParameter"
                                                  /\ d.strs[1] = "lcPushy"}}) <= 1]_vars

\* two obstacles of the vehicle's lane satisfy the predicate in a pass that
\* forced a lane change and counted it once
C33_Witness ==
    /\ pc = "remove_stuck_vehicles"
    /\ V1 \in ActiveVehs
    /\ Cardinality(ObstaclesAhead(V1)) = 2
    /\ V1 \in Overridden(cmds)
    /\ lc_force_count = 1

\* the lanes whose shape the engine would hand out during the lookup
ReadableLanes ==
    IF geometry.raises = EdgeIdListRaises THEN {}
    ELSE {l \in AllLanes : geometry.raises # l /\ geometry.raises # EdgeOfLane(l)}

\* the vertices of the readable lanes, as (edge position, lane index, vertex
\* position): the iteration order is the lexicographic order of these
Vertices ==
    {<<i, j, k>> \in (1..Len(EdgeList)) \X (0..1) \X (1..2) :
        /\ j < LaneNumber(EdgeList[i])
        /\ LaneIdOf(EdgeList[i], j) \in ReadableLanes
        /\ k <= Len(geometry.shape[LaneIdOf(EdgeList[i], j)])}

VertexDist2(c) ==
    Dist2(geometry.shape[LaneIdOf(EdgeList[c[1]], c[2])][c[3]],
          geometry.x, geometry.y)

Before(c, d) ==
    \/ c[1] < d[1]
    \/ c[1] = d[1] /\ c[2] < d[2]
    \/ c[1] = d[1] /\ c[2] = d[2] /\ c[3] < d[3]

\* a nearest vertex that no other nearest vertex precedes
FirstNearest(c) ==
    /\ c \in Vertices
    /\ \A d \in Vertices :
          /\ VertexDist2(c) <= VertexDist2(d)
          /\ VertexDist2(d) = VertexDist2(c) => ~Before(d, c)

\* C34: the lookup returns the edge and lane of the first vertex, in
\* iteration order, among those at minimum distance from the point over the
\* lanes whose shape can be read, and no edge only when there is no such
\* vertex.
C34_NearestVertexLane ==
    nearest # None
       => IF Vertices = {}
          THEN nearest[1].edge = NoEdge
          ELSE \E c \in Vertices :
                  /\ FirstNearest(c)
                  /\ nearest[1] = [edge |-> EdgeList[c[1]], lane |-> c[2]]

\* C35: an escalation pass in which an engine call raises leaves the timer
\* of every vehicle that is still close behind an obstacle, at low speed, as
\* it was, and sends that vehicle no reset command.
C35_FailureKeepsTimer ==
    [][(/\ pc = "assist_stuck_vehicles"
        /\ pc' = "remove_stuck_vehicles"
        /\ faults' # faults)
          => \A v \in (DOMAIN stuck_timers) \cap ActiveVehs :
                CloseBehindSlow(v)
                   => /\ v \in DOMAIN stuck_timers'
                      /\ stuck_timers'[v] = stuck_timers[v]
                      /\ Cmd("setLaneChangeMode", v, <<>>, <<1621>>) \notin cmds'
                      /\ \A i \in 1..3 :
                            Cmd("setParameter", v, <<ParamNames[i], BaseParams[i]>>,
                                <<>>) \notin cmds']_vars

\* C36: an escalation pass adds to the forced-change counter the number of
\* lane-change requests it issues, so the counter does not grow in a pass
\* that issues none.
C36_CounterCountsRequests ==
    [][pc = "assist_stuck_vehicles"
          => lc_force_count' - lc_force_count
                = Cardinality({c \in cmds' : c.op = "changeLane"})]_vars

\* C38: in every state the arrived set is the set of tracked vehicles with
\* an arrival time, each arrival time is at or after the depart time, and a
\* summary that reports the totals reports the sizes of the arrived set and
\* of the tracking map, total_arrived <= total_departed; no step removes a
\* vehicle from the tracking map or from the arrived set.
C38_TrackingConsistent ==
    [][/\ arrived_vehicles' \subseteq DOMAIN vehicle_data'
       /\ arrived_vehicles' =
             {v \in DOMAIN vehicle_data' : vehicle_data'[v].arrival_time # None}
       /\ \A v \in arrived_vehicles' :
             vehicle_data'[v].arrival_time[1] >= vehicle_data'[v].depart_time
       /\ DOMAIN vehicle_data \subseteq DOMAIN vehicle_data'
       /\ arrived_vehicles \subseteq arrived_vehicles'
       /\ (results' # None /\ "total_arrived" \in DOMAIN results'[1])
             => /\ results'[1].total_arrived = Cardinality(arrived_vehicles')
                /\ results'[1].total_departed = Cardinality(DOMAIN vehicle_data')
                /\ results'[1].total_arrived <= results'[1].total_departed]_vars

\* the summary of a run in which one of the two tracked vehicles arrived
C38_Witness ==
    /\ pc = "done"
    /\ results # None
    /\ "total_arrived" \in DOMAIN results[1]
    /\ results[1].total_arrived = 1
    /\ results[1].total_departed = 2
    /\ Cardinality(arrived_vehicles) = 1

\* the session has started and the run is in its step loop
InLoop == pc = "simulationStep" \/ InPhase
InLoop_Next == pc' \in Range(PhasesOfStep)

\* C39: once the session has started, the run leaves the step loop only by
\* a failing step-advance call or, after exactly int(sim_time / step_length)
\* engine steps, by closing the connection, which it does once and which
\* leads to the summary; within a step each phase is followed by the next
\* one, and only the selector of the first step issues a program command.
C39_LoopRunsToHorizon ==
    [][/\ (InLoop /\ pc' = "failed") => pc = "simulationStep"
       /\ InPhase => pc' = NextPhase
       /\ (pc = "simulationStep" /\ pc' = "update_obstacle_positions")
             => step < sim_time \div step_length
       /\ (pc = "collect_vehicle_data" /\ pc' = "simulationStep")
             => step' = step + 1
       /\ (InLoop /\ ~InLoop_Next /\ pc' # "failed")
             => /\ pc' = "calculate_delay"
                /\ step = sim_time \div step_length
                /\ connected /\ ~connected'
       /\ (~connected /\ pc # "start") => ~connected'
       /\ (pc = "update_tls_program" /\ step > 0)
             => {c \in cmds' : c.op = "setProgram"} = {}]_vars

====
